---- MODULE Spec2Model ----
(***************************************************************************)
(* The HTTP execution-and-caching core of api-tester:                      *)
(*   src/src/lib/httpRequest.ts   httpRequest                              *)
(*   src/src/lib/kv.ts            createMemoryKV, getKV                    *)
(*   src/src/app/api/test/route.ts   POST (the send-request route)         *)
(* JavaScript strings that the code inspects character by character        *)
(* (method, header names) are sequences of one-character strings; values   *)
(* the code only copies are atoms.                                         *)
(***************************************************************************)
EXTENDS Integers, Sequences, FiniteSets, TLC

VARIABLES
    now,      \* Date.now(), in milliseconds
    env,      \* process.env (backend, ttl) and the workload of the run
    store,    \* createMemoryKV's Map: key -> [value, exp, setAt, ttl]
    redis,    \* the external backing store: key -> [value, exp]
    ex,       \* the request being served: httpRequest in flight or just over
    prev,     \* what the request served before it did
    kvlog,    \* the operation on the cache client made in the last step
    fp,       \* the fingerprinter's inputs and outputs (SpecFp)
    ag,       \* the agent turn POST /api/agent is serving (SpecAgent)
    sse,      \* the event stream on the wire and its reader (SpecSse)
    conc      \* the executions of httpRequest under way at once (SpecConc)

vars == <<now, env, conc, store, redis, ex, prev, kvlog, fp, ag, sse>>

-----------------------------------------------------------------------------
\* Bounds of the model

\* the largest number of headers a caller supplies
MaxHdrs == 2
\* the largest number of edits applied to a request descriptor in SpecFp
MaxEdits == 2

-----------------------------------------------------------------------------
\* JavaScript strings and values

UpperAlphabet ==
    <<"A","B","C","D","E","F","G","H","I","J","K","L","M",
      "N","O","P","Q","R","S","T","U","V","W","X","Y","Z">>

LowerAlphabet ==
    <<"a","b","c","d","e","f","g","h","i","j","k","l","m",
      "n","o","p","q","r","s","t","u","v","w","x","y","z">>

IndexIn(seq, c) == CHOOSE i \in 1..Len(seq) : seq[i] = c

IsUpperChar(c) == \E i \in 1..Len(UpperAlphabet) : UpperAlphabet[i] = c
IsLowerChar(c) == \E i \in 1..Len(LowerAlphabet) : LowerAlphabet[i] = c

\* the characters of the model's strings
Chars ==
    {UpperAlphabet[i] : i \in 1..Len(UpperAlphabet)} \cup
    {LowerAlphabet[i] : i \in 1..Len(LowerAlphabet)} \cup {"-", "/", "{", "}"}

LowerMap == [c \in Chars |-> IF IsUpperChar(c) THEN LowerAlphabet[IndexIn(UpperAlphabet, c)] ELSE c]
UpperMap == [c \in Chars |-> IF IsLowerChar(c) THEN UpperAlphabet[IndexIn(LowerAlphabet, c)] ELSE c]

ToLowerChar(c) == LowerMap[c]
ToUpperChar(c) == UpperMap[c]

\* String.prototype.toLowerCase / toUpperCase
ToLowerCase(s) == [i \in 1..Len(s) |-> ToLowerChar(s[i])]
ToUpperCase(s) == [i \in 1..Len(s) |-> ToUpperChar(s[i])]

\* The collation's primary order of the characters of header names:
\* punctuation before letters, letters in alphabetical order whatever their case.
WeightMap ==
    [c \in Chars |-> IF IsUpperChar(c) THEN IndexIn(UpperAlphabet, c)
                     ELSE IF IsLowerChar(c) THEN IndexIn(LowerAlphabet, c)
                     ELSE 0]

PrimaryWeight(c) == WeightMap[c]

RECURSIVE ComparePrimary(_, _, _)
ComparePrimary(a, b, i) ==
    IF i > Len(a) /\ i > Len(b) THEN 0
    ELSE IF i > Len(a) THEN -1
    ELSE IF i > Len(b) THEN 1
    ELSE IF PrimaryWeight(a[i]) < PrimaryWeight(b[i]) THEN -1
    ELSE IF PrimaryWeight(a[i]) > PrimaryWeight(b[i]) THEN 1
    ELSE ComparePrimary(a, b, i + 1)

\* Strings equal at the primary level are ordered by case at the first
\* position where they differ: lower case first.
RECURSIVE CompareCase(_, _, _)
CompareCase(a, b, i) ==
    IF i > Len(a) THEN 0
    ELSE IF a[i] = b[i] THEN CompareCase(a, b, i + 1)
    ELSE IF LowerMap[a[i]] = a[i] THEN -1 ELSE 1

\* String.prototype.localeCompare
LocaleCompare(a, b) ==
    LET primary == ComparePrimary(a, b, 1)
    IN  IF primary # 0 THEN primary ELSE CompareCase(a, b, 1)

\* JavaScript values: t is the typeof tag, v the payload
JUndefined == [t |-> "undefined", v |-> <<>>]
JNull      == [t |-> "null", v |-> <<>>]
JString(s) == [t |-> "string", v |-> s]
JObject(o) == [t |-> "object", v |-> o]

\* !x for the values above
Falsy(x) == x.t \in {"undefined", "null"} \/ (x.t = "string" /\ x.v = <<>>)

\* JSON.stringify of a request body that is not a string
JsonStringifyData(x) == <<"{">> \o x.v \o <<"}">>

-----------------------------------------------------------------------------
\* JavaScript objects used as string-keyed maps: a sequence of [k, v] in
\* property insertion order, no key twice.

ObjHas(obj, k) == \E i \in 1..Len(obj) : obj[i].k = k
ObjGet(obj, k) == obj[CHOOSE i \in 1..Len(obj) : obj[i].k = k].v

\* obj[k] = v
ObjSet(obj, k, v) ==
    IF ObjHas(obj, k)
    THEN [i \in 1..Len(obj) |-> IF obj[i].k = k THEN [k |-> k, v |-> v] ELSE obj[i]]
    ELSE Append(obj, [k |-> k, v |-> v])

\* Object.keys(obj)
ObjKeys(obj) == [i \in 1..Len(obj) |-> obj[i].k]

\* { ...base, ...src }
RECURSIVE ObjSpread(_, _)
ObjSpread(base, src) ==
    IF src = <<>> THEN base
    ELSE ObjSpread(ObjSet(base, Head(src).k, Head(src).v), Tail(src))

\* Array.prototype.sort((a, b) => a.localeCompare(b)): a stable insertion sort
RECURSIVE InsertSorted(_, _)
InsertSorted(sorted, k) ==
    IF sorted = <<>> THEN <<k>>
    ELSE IF LocaleCompare(k, Head(sorted)) < 0 THEN <<k>> \o sorted
    ELSE <<Head(sorted)>> \o InsertSorted(Tail(sorted), k)

RECURSIVE SortKeys(_)
SortKeys(keys) ==
    IF keys = <<>> THEN <<>>
    ELSE InsertSorted(SortKeys(SubSeq(keys, 1, Len(keys) - 1)), keys[Len(keys)])

-----------------------------------------------------------------------------
\* httpRequest: the part before the first await

ContentType == <<"C","o","n","t","e","n","t","-","T","y","p","e">>
AuthorizationLower == <<"a","u","t","h","o","r","i","z","a","t","i","o","n">>
Authorization == <<"A","u","t","h","o","r","i","z","a","t","i","o","n">>
GET == <<"G","E","T">>
BodyMethods == { <<"P","O","S","T">>, <<"P","U","T">>, <<"P","A","T","C","H">> }

\* ValidationError as it would be without the test of the method
ValidationErrorUrlOnly(req) == IF Falsy(req.url) THEN "URL is required" ELSE "none"

\* if (!url) throw ...; if (!method) throw ...
ValidationError(req) ==
    IF Falsy(req.url) THEN "URL is required"
    ELSE IF Falsy(req.method) THEN "Method is required"
    ELSE "none"

UpperMethod(req) == ToUpperCase(req.method.v)

\* { 'Content-Type': 'application/json', ...headers }
FetchHeaders(req) ==
    ObjSpread(<<[k |-> ContentType, v |-> "application/json"]>>, req.headers)

\* InitBody as it would be without the test of the method
InitBodyAnyMethod(req) ==
    IF req.data.t \notin {"undefined", "null"}
    THEN IF req.data.t = "string" THEN JString(req.data.v)
         ELSE JString(JsonStringifyData(req.data))
    ELSE JUndefined

\* init.body: undefined stands for a body that is not set
InitBody(req) ==
    IF UpperMethod(req) \in BodyMethods /\ req.data.t \notin {"undefined", "null"}
    THEN IF req.data.t = "string" THEN JString(req.data.v)
         ELSE JString(JsonStringifyData(req.data))
    ELSE JUndefined

\* HasAuth as it would be if the name were compared without lower-casing it
HasAuthExactCase(req) ==
    LET fetchHeaders == FetchHeaders(req)
    IN  \E i \in 1..Len(fetchHeaders) : fetchHeaders[i].k = Authorization

HasAuth(req) ==
    LET fetchHeaders == FetchHeaders(req)
    IN  \E i \in 1..Len(fetchHeaders) : ToLowerCase(fetchHeaders[i].k) = AuthorizationLower

\* CanCache as it would be without the test of the method
CanCacheAnyMethod(req) == ~HasAuth(req)

CanCache(req) == UpperMethod(req) = GET /\ ~HasAuth(req)

\* Object.keys(fetchHeaders).sort(...).reduce((acc, k) => { acc[k.toLowerCase()] = fetchHeaders[k] ... }, {})
RECURSIVE ReduceLower(_, _, _)
ReduceLower(acc, keys, fetchHeaders) ==
    IF keys = <<>> THEN acc
    ELSE ReduceLower(ObjSet(acc, ToLowerCase(Head(keys)), ObjGet(fetchHeaders, Head(keys))),
                     Tail(keys), fetchHeaders)

SortedHeaders(req) ==
    LET fetchHeaders == FetchHeaders(req)
    IN  ReduceLower(<<>>, SortKeys(ObjKeys(fetchHeaders)), fetchHeaders)

BodyStr(req) ==
    LET body == InitBody(req)
    IN  IF body.t = "undefined" THEN <<>> ELSE body.v

\* KeyRaw as it would be without the URL
KeyRawNoUrl(req) ==
    [m |-> UpperMethod(req), url |-> <<>>, h |-> SortedHeaders(req), b |-> BodyStr(req)]

\* JSON.stringify({ m, url, h, b }): one string per object, and no two objects
\* share a string, so the object stands for its string
KeyRaw(req) ==
    [m |-> UpperMethod(req), url |-> req.url.v, h |-> SortedHeaders(req), b |-> BodyStr(req)]

\* 'http:' + sha256(keyRaw), the digest taken as injective
CacheKeyOf(req) == [ns |-> "http:", digest |-> KeyRaw(req)]

NoKey == [ns |-> "null", digest |-> [m |-> <<>>, url |-> <<>>, h |-> <<>>, b |-> <<>>]]

\* cacheKey as httpRequest leaves it: null unless canCache
CacheKey(req) == IF CanCache(req) THEN CacheKeyOf(req) ELSE NoKey

\* what fetch(url, init) is given to send: init.method, url and every
\* property of init.headers, each name as it is spelled
Transmitted(req) ==
    LET fetchHeaders == FetchHeaders(req)
    IN  [method |-> UpperMethod(req), url |-> req.url.v,
         headers |-> {<<fetchHeaders[i].k, fetchHeaders[i].v>> : i \in 1..Len(fetchHeaders)}]

NoTransmission == [method |-> <<>>, url |-> <<>>, headers |-> {}]

-----------------------------------------------------------------------------
\* The fingerprinter on its own (SpecFp): fp.a is a request descriptor, fp.b a
\* descriptor obtained from it by edits, fp.ka and fp.kb the cache keys
\* httpRequest computes for them.

ContentTypeLower == ToLowerCase(ContentType)
Accept == <<"A","c","c","e","p","t">>
AcceptLower == ToLowerCase(Accept)
Url1 == <<"/","a">>
Url2 == <<"/","b">>
GetLower == <<"g","e","t">>
POST == <<"P","O","S","T">>

FpHdrNames == {ContentType, ContentTypeLower, Accept, AcceptLower}
FpHdrValues == {"application/json", "text/plain"}
FpMethods == {GET, GetLower, POST}
FpUrls == {Url1, Url2}
FpData == {JUndefined, JString(<<"d">>)}

\* the header maps of at most n entries over the given names and values
HeaderMaps(names, values, n) ==
    UNION { { h \in [1..m -> [k : names, v : values]] :
                \A i, j \in 1..m : i # j => h[i].k # h[j].k } : m \in 0..n }

\* the descriptors the edits start from: a GET of one URL with any header map
FpDescriptors ==
    [url : {JString(Url1)}, method : {JString(GET)},
     headers : HeaderMaps(FpHdrNames, FpHdrValues, MaxHdrs), data : {JUndefined}]

NoRequest == [url |-> JUndefined, method |-> JUndefined, headers |-> <<>>, data |-> JUndefined]

FpIdle == [phase |-> "idle", a |-> NoRequest, b |-> NoRequest, ka |-> NoKey, kb |-> NoKey, n |-> 0]

FpEdit(b2) ==
    /\ fp.phase = "input"
    /\ fp.n < MaxEdits
    /\ b2 # fp.b
    /\ fp' = [fp EXCEPT !.b = b2, !.n = @ + 1]

\* the caller writes one header name in another letter case
FpRecase ==
    \E i \in 1..Len(fp.b.headers), k2 \in FpHdrNames :
        /\ ToLowerCase(k2) = ToLowerCase(fp.b.headers[i].k)
        /\ ~ObjHas(fp.b.headers, k2)
        /\ FpEdit([fp.b EXCEPT !.headers[i].k = k2])
        /\ UNCHANGED <<now, env, conc, store, redis, ex, prev, kvlog, ag, sse>>

\* the caller inserts two neighbouring headers in the other order
FpSwap ==
    \E i \in 1..(Len(fp.b.headers) - 1) :
        /\ FpEdit([fp.b EXCEPT !.headers[i] = fp.b.headers[i + 1],
                               !.headers[i + 1] = fp.b.headers[i]])
        /\ UNCHANGED <<now, env, conc, store, redis, ex, prev, kvlog, ag, sse>>

FpSetUrl ==
    \E u \in FpUrls :
        /\ FpEdit([fp.b EXCEPT !.url = JString(u)])
        /\ UNCHANGED <<now, env, conc, store, redis, ex, prev, kvlog, ag, sse>>

FpSetData ==
    \E d \in FpData :
        /\ FpEdit([fp.b EXCEPT !.data = d])
        /\ UNCHANGED <<now, env, conc, store, redis, ex, prev, kvlog, ag, sse>>

FpSetMethod ==
    \E m \in FpMethods :
        /\ FpEdit([fp.b EXCEPT !.method = JString(m)])
        /\ UNCHANGED <<now, env, conc, store, redis, ex, prev, kvlog, ag, sse>>

\* httpRequest computes cacheKey for both descriptors
FpRun ==
    /\ fp.phase = "input"
    /\ fp' = [fp EXCEPT !.phase = "keyed", !.ka = CacheKey(fp.a), !.kb = CacheKey(fp.b)]
    /\ UNCHANGED <<now, env, conc, store, redis, ex, prev, kvlog, ag, sse>>

-----------------------------------------------------------------------------
\* The cache client (kv.ts)

\* the envelope httpRequest returns (ResponseData)
\* (responseTime, a number the code only copies, is left out)
NoEnvelope ==
    [status |-> 0, headers |-> "", data |-> "", url |-> <<>>, fromCache |-> FALSE]

\* JSON.stringify(result) and JSON.parse(cached): the string of an envelope is
\* the envelope tagged "json"; the client's null is tagged "null"
JsonStringify(envelope) == [kind |-> "json", env |-> envelope]
NullValue == [kind |-> "null", env |-> NoEnvelope]
\* values another writer can leave in the external store: a string that is no
\* JSON text, and the empty string
CorruptValue == [kind |-> "corrupt", env |-> NoEnvelope]
EmptyValue == [kind |-> "empty", env |-> NoEnvelope]
JsonParse(str) == [ok |-> str.kind = "json", val |-> str.env]

EmptyMap == [k \in {} |-> NullValue]
MapPut(map, key, entry) == [k \in DOMAIN map \cup {key} |-> IF k = key THEN entry ELSE map[k]]
MapDelete(map, key) == [k \in DOMAIN map \ {key} |-> map[k]]

\* MemExp as it would be if the TTL were added as milliseconds
MemExpMillis(ttlSeconds, t) == IF ttlSeconds # 0 THEN t + ttlSeconds ELSE 0

\* MemExp as it would be if a TTL of 0 were added like any other
MemExpZeroExpires(ttlSeconds, t) == t + ttlSeconds * 1000

\* the exp createMemoryKV().set computes
MemExp(ttlSeconds, t) == IF ttlSeconds # 0 THEN t + ttlSeconds * 1000 ELSE 0

\* MemGet as it would be if an expired entry were left in the Map
MemGetKeepExpired(map, key, t) ==
    IF key \notin DOMAIN map THEN [ret |-> NullValue, map |-> map]
    ELSE IF map[key].exp # 0 /\ t > map[key].exp
         THEN [ret |-> NullValue, map |-> map]
         ELSE [ret |-> map[key].value, map |-> map]

\* MemSet as it would be if the entry became visible before the whole value
\* is in place
MemSetPartial(map, key, value, ttlSeconds, t) ==
    MapPut(map, key, [value |-> CorruptValue, exp |-> MemExp(ttlSeconds, t),
                       setAt |-> t, ttl |-> ttlSeconds])

\* MemGet as it would be if a get that finds an entry renewed its expiry
MemGetTouch(map, key, t) ==
    IF key \notin DOMAIN map THEN [ret |-> NullValue, map |-> map]
    ELSE IF map[key].exp # 0 /\ t > map[key].exp
         THEN [ret |-> NullValue, map |-> MapDelete(map, key)]
         ELSE [ret |-> map[key].value,
               map |-> [map EXCEPT ![key].exp = MemExp(map[key].ttl, t)]]

\* createMemoryKV().get at time t: the value returned and the Map afterwards.
\* exp = 0 stands for an undefined exp (both are falsy in "it.exp &&").
MemGet(map, key, t) ==
    IF key \notin DOMAIN map THEN [ret |-> NullValue, map |-> map]
    ELSE IF map[key].exp # 0 /\ t > map[key].exp
         THEN [ret |-> NullValue, map |-> MapDelete(map, key)]
         ELSE [ret |-> map[key].value, map |-> map]

\* createMemoryKV().set at time t; setAt and ttl record the call
MemSet(map, key, value, ttlSeconds, t) ==
    MapPut(map, key, [value |-> value, exp |-> MemExp(ttlSeconds, t),
                       setAt |-> t, ttl |-> ttlSeconds])

\* redis.get as the external store answers it when it answers: a key that
\* holds a value whose expiry has not come
RedisGet(map, key, t) ==
    IF key \in DOMAIN map /\ (map[key].exp = 0 \/ t < map[key].exp)
    THEN map[key].value ELSE NullValue

\* getKV().set on the external store when the call succeeds:
\* { ex: ttlSeconds } only if ttlSeconds && ttlSeconds > 0
RedisSet(map, key, value, ttlSeconds, t) ==
    MapPut(map, key, [value |-> value,
                       exp |-> IF ttlSeconds # 0 /\ ttlSeconds > 0 THEN t + ttlSeconds * 1000 ELSE 0,
                       setAt |-> t, ttl |-> ttlSeconds])

NoLog == [op |-> "none", key |-> NoKey, ret |-> NullValue, failed |-> FALSE]
LogOp(op, key, ret, failed) == [op |-> op, key |-> key, ret |-> ret, failed |-> failed]

-----------------------------------------------------------------------------
\* Configuration and the environment

DefaultTtl == 1200

\* one step of the clock, in milliseconds
TickMs == 1000
\* the number of clock steps
MaxTicks == 2
\* Date.now() of the first state
StartMs == 1000
\* process.env.HTTP_CACHE_TTL_SECONDS: unset, or a number of seconds
TtlVars == {[set |-> FALSE, n |-> 0], [set |-> TRUE, n |-> 0], [set |-> TRUE, n |-> 1]}

\* Number(process.env.HTTP_CACHE_TTL_SECONDS || 1200)
ConfiguredTtl(v) == IF v.set THEN v.n ELSE DefaultTtl

\* what fetch can resolve to: status, headers and decoded body of the remote answer
Responses ==
    { [status |-> 200, headers |-> "content-type: application/json", data |-> "{ok}"],
      [status |-> 404, headers |-> "content-type: text/plain", data |-> "not found"],
      [status |-> 500, headers |-> "content-type: text/html", data |-> "oops"] }

NoResponse == [status |-> 0, headers |-> "", data |-> ""]

-----------------------------------------------------------------------------
\* The requests of the model

AuthorizationUpper == ToUpperCase(Authorization)
DeleteLower == <<"d","e","l","e","t","e">>

Req(url, method, headers, data) ==
    [url |-> url, method |-> method, headers |-> headers, data |-> data]

Hdr(k, v) == [k |-> k, v |-> v]

GetA == Req(JString(Url1), JString(GET), <<>>, JUndefined)
GetALower == Req(JString(Url1), JString(GetLower), <<>>, JString(<<"d">>))
GetB == Req(JString(Url2), JString(GET), <<Hdr(Accept, "text/plain")>>, JUndefined)
GetAuth == Req(JString(Url1), JString(GET), <<Hdr(Authorization, "token")>>, JUndefined)
GetAuthUpper ==
    Req(JString(Url1), JString(GetLower), <<Hdr(AuthorizationUpper, "token")>>, JUndefined)
GetAuthLower ==
    Req(JString(Url1), JString(GET),
        <<Hdr(Accept, "text/plain"), Hdr(AuthorizationLower, "token")>>, JUndefined)
PostA == Req(JString(Url1), JString(POST), <<>>, JString(<<"d">>))
PutA == Req(JString(Url1), JString(<<"p","u","t">>), <<>>, JUndefined)
DeleteAuth == Req(JString(Url1), JString(DeleteLower), <<Hdr(Authorization, "token")>>, JUndefined)

PATCH == <<"P","A","T","C","H">>
DELETE == ToUpperCase(DeleteLower)
PostObj == Req(JString(Url1), JString(POST), <<>>, JObject(<<"k">>))
PutStr == Req(JString(Url1), JString(<<"p","u","t">>), <<>>, JString(<<"d">>))
PatchNull == Req(JString(Url1), JString(PATCH), <<>>, JNull)
DeleteData == Req(JString(Url1), JString(DELETE), <<>>, JString(<<"d">>))

\* a GET whose caller names the content type itself, in lower case
GetCtLower == Req(JString(Url1), JString(GET), <<Hdr(ContentTypeLower, "text/plain")>>, JUndefined)

NoUrl == Req(JUndefined, JString(GET), <<>>, JUndefined)
EmptyUrl == Req(JString(<<>>), JString(GET), <<>>, JUndefined)
NoMethod == Req(JString(Url1), JUndefined, <<>>, JUndefined)
EmptyMethod == Req(JString(Url1), JString(<<>>), <<>>, JUndefined)

\* The requests one run of the model draws from: each workload mixes the
\* requests of one kind with a cacheable GET of the same URL.
Workloads ==
    [cache   |-> {GetA, GetALower, GetB},
     auth    |-> {GetA, GetAuth, GetAuthUpper, GetAuthLower},
     methods |-> {GetA, PostA, PutA, DeleteAuth},
     invalid |-> {GetA, NoUrl, EmptyUrl, NoMethod, EmptyMethod},
     bodies  |-> {GetALower, PostObj, PutStr, PatchNull, DeleteData},
     collide |-> {GetA, GetCtLower}]

Requests == UNION {Workloads[w] : w \in DOMAIN Workloads}

-----------------------------------------------------------------------------
\* httpRequest, one action per stretch of code between two awaits

\* via: who called ("direct": a caller such as the agent's http_request tool,
\* "route": POST /api/test); called: httpRequest was invoked
IdleEx ==
    [pc |-> "idle", via |-> "none", called |-> FALSE, req |-> NoRequest, key |-> NoKey,
     canCache |-> FALSE, authGet |-> FALSE, absent |-> FALSE, reads |-> 0, writes |-> 0, net |-> 0,
     getFailed |-> FALSE, setFailed |-> FALSE, writeAt |-> 0, initBody |-> JUndefined,
     resp |-> NoResponse, result |-> NoEnvelope, error |-> "none", cached |-> "none"]

Terminal == {"returned", "thrown", "rejected"}

\* url or method is missing or empty
MissingOrEmpty(x) == x.t = "undefined" \/ (x.t = "string" /\ x.v = <<>>)
IsInvalid(req) == MissingOrEmpty(req.url) \/ MissingOrEmpty(req.method)

\* the caller's header map holds a name equal to "authorization" whatever its case
CarriesAuthorization(req) ==
    \E i \in 1..Len(req.headers) : ToLowerCase(req.headers[i].k) = AuthorizationLower

IsGet(req) == ~IsInvalid(req) /\ ToUpperCase(req.method.v) = GET

\* a GET, in any letter case, that carries an Authorization header
IsAuthGet(req) == IsGet(req) /\ CarriesAuthorization(req)

\* a GET without an Authorization header
IsCacheableGet(req) == IsGet(req) /\ ~CarriesAuthorization(req)

\* what is kept of a request once the next one is served; sent is what a
\* cacheable request gave fetch to send
Summary(e) ==
    [pc |-> e.pc, key |-> e.key, authGet |-> e.authGet, net |-> e.net,
     sent |-> IF e.canCache THEN Transmitted(e.req) ELSE NoTransmission]

\* the map of the client getKV() returns
ActiveMap == IF env.backend = "memory" THEN store ELSE redis

\* const { url, method, headers = {}, data = null } = body
RouteArgs(body) == [body EXCEPT !.data = IF @.t = "undefined" THEN JNull ELSE @]

NoRouteResponse ==
    [status |-> 0, body |-> NoEnvelope, error |-> "none", details |-> "none", xcache |-> "none"]

\* RouteResponse as it would be if a remote error status were answered as a failure
RouteResponseRemoteErrors(e) ==
    IF e.pc = "rejected"
    THEN [NoRouteResponse EXCEPT !.status = 400, !.error = ValidationError(e.req)]
    ELSE IF e.pc = "returned" /\ e.result.status < 400
    THEN [NoRouteResponse EXCEPT !.status = 200, !.body = e.result,
                                 !.xcache = IF e.result.fromCache THEN "HIT" ELSE "MISS"]
    ELSE IF e.pc \in {"returned", "thrown"}
    THEN [NoRouteResponse EXCEPT !.status = 500, !.error = "Failed to make request",
                                 !.details = e.error]
    ELSE NoRouteResponse

\* what POST /api/test answers for the request e it served
RouteResponse(e) ==
    IF e.pc = "rejected"
    THEN [NoRouteResponse EXCEPT !.status = 400, !.error = ValidationError(e.req)]
    ELSE IF e.pc = "returned"
    THEN [NoRouteResponse EXCEPT !.status = 200, !.body = e.result,
                                 !.xcache = IF e.result.fromCache THEN "HIT" ELSE "MISS"]
    ELSE IF e.pc = "thrown"
    THEN [NoRouteResponse EXCEPT !.status = 500, !.error = "Failed to make request",
                                 !.details = e.error]
    ELSE NoRouteResponse

\* HitResult as it would be if the parsed envelope were returned as stored
HitResultAsStored(cached) == JsonParse(cached).val

\* IsHit as it would be without the try/catch around JSON.parse: what is
\* read is returned as it is
IsHitUnparsed(cached) == cached.kind \notin {"null", "empty"}

\* if (cached) { try { return { ...JSON.parse(cached), fromCache: true } } catch {} }
IsHit(cached) == cached.kind \notin {"null", "empty"} /\ JsonParse(cached).ok
HitResult(cached) == [JsonParse(cached).val EXCEPT !.fromCache = TRUE]

\* cached records the kind of value the read returned
AfterGet(e, cached) ==
    IF IsHit(cached)
    THEN [e EXCEPT !.pc = "returned", !.result = HitResult(cached), !.cached = cached.kind]
    ELSE [e EXCEPT !.pc = "fetch", !.cached = cached.kind]

\* the envelope built from the remote answer r (statusText is left out as
\* responseTime is; res.url is the URL asked for: no redirect is modelled)
FreshResult(e, r) ==
    [status |-> r.status, headers |-> r.headers, data |-> r.data,
     url |-> e.req.url.v, fromCache |-> FALSE]

\* what the synchronous head of httpRequest computes from its argument, for
\* every argument of the model
Head1 ==
    [req \in Requests \cup {RouteArgs(r) : r \in Requests} \cup {NoRequest} |->
        [error |-> ValidationError(req), canCache |-> CanCache(req), key |-> CacheKey(req),
         authGet |-> IsAuthGet(req), initBody |-> InitBody(req)]]

\* httpRequest(req) up to its first await
Enter(req, via) ==
    LET h  == Head1[req]
        e0 == [IdleEx EXCEPT !.via = via, !.called = TRUE, !.req = req]
        e1 == [e0 EXCEPT !.key = h.key, !.canCache = h.canCache, !.authGet = h.authGet,
                         !.initBody = h.initBody,
                         !.absent = h.key \notin DOMAIN ActiveMap]
        g  == MemGet(store, e1.key, now)
    IN  /\ ex.pc \in {"idle"} \cup Terminal
        /\ prev' = Summary(ex)
        /\ IF h.error # "none"
           THEN /\ ex' = [e0 EXCEPT !.pc = "thrown", !.error = h.error]
                /\ kvlog' = NoLog
                /\ UNCHANGED store
           ELSE IF ~e1.canCache
           THEN /\ ex' = [e1 EXCEPT !.pc = "fetch"]
                /\ kvlog' = NoLog
                /\ UNCHANGED store
           ELSE IF env.backend = "memory"
           THEN /\ ex' = AfterGet([e1 EXCEPT !.reads = 1], g.ret)
                /\ store' = g.map
                /\ kvlog' = LogOp("get", e1.key, g.ret, FALSE)
           ELSE /\ ex' = [e1 EXCEPT !.pc = "kvget", !.reads = 1]
                /\ kvlog' = NoLog
                /\ UNCHANGED store
        /\ UNCHANGED <<now, env, conc, redis, fp, sse>>

\* a caller other than the route and the agent calls httpRequest
Call ==
    /\ \E req \in Workloads[env.workload] : Enter(req, "direct")
    /\ UNCHANGED ag

\* POST /api/test: 400 without calling httpRequest, or the call
RoutePost ==
    \E body \in Workloads[env.workload] :
        IF ValidationError(body) # "none"
        THEN /\ ex.pc \in {"idle"} \cup Terminal
             /\ prev' = Summary(ex)
             /\ ex' = [IdleEx EXCEPT !.pc = "rejected", !.via = "route", !.req = body]
             /\ kvlog' = NoLog
             /\ UNCHANGED <<now, env, conc, store, redis, fp, ag, sse>>
        ELSE Enter(RouteArgs(body), "route") /\ UNCHANGED ag

\* await kv.get(cacheKey) on the external store answers
KvGetReturn ==
    LET cached == RedisGet(redis, ex.key, now)
    IN  /\ ex.pc = "kvget"
        /\ ex' = AfterGet(ex, cached)
        /\ kvlog' = LogOp("get", ex.key, cached, FALSE)
        /\ UNCHANGED <<now, env, conc, store, redis, prev, fp, ag, sse>>

\* KvGetFail as it would be if the client let the error of redis.get through
KvGetFailThrows ==
    /\ ex.pc = "kvget"
    /\ ex' = [ex EXCEPT !.pc = "thrown", !.getFailed = TRUE, !.error = "redis.get failed"]
    /\ kvlog' = LogOp("get", ex.key, NullValue, TRUE)
    /\ UNCHANGED <<now, env, conc, store, redis, prev, fp, ag, sse>>

\* redis.get throws: the client catches and returns null
KvGetFail ==
    /\ ex.pc = "kvget"
    /\ ex' = AfterGet([ex EXCEPT !.getFailed = TRUE], NullValue)
    /\ kvlog' = LogOp("get", ex.key, NullValue, TRUE)
    /\ UNCHANGED <<now, env, conc, store, redis, prev, fp, ag, sse>>

\* Stores as it would be if only an answer below 400 were written
StoresBelow400(e) == e.canCache /\ e.key # NoKey /\ e.resp.status < 400

\* if (canCache && cacheKey)
Stores(e) == e.canCache /\ e.key # NoKey

\* fetch resolves with a remote answer, whatever its status; the envelope is
\* built and, if canCache && cacheKey, written with the configured TTL
FetchReturn ==
    \E r \in Responses :
        LET e1 == [ex EXCEPT !.net = 1, !.resp = r, !.result = FreshResult(ex, r)]
            ttl == ConfiguredTtl(env.ttl)
        IN  /\ ex.pc = "fetch"
            /\ IF ~Stores(e1)
               THEN /\ ex' = [e1 EXCEPT !.pc = "returned"]
                    /\ kvlog' = NoLog
                    /\ UNCHANGED store
               ELSE IF env.backend = "memory"
               THEN /\ ex' = [e1 EXCEPT !.pc = "returned", !.writes = 1, !.writeAt = now]
                    /\ store' = MemSet(store, e1.key, JsonStringify(e1.result), ttl, now)
                    /\ kvlog' = LogOp("set", e1.key, JsonStringify(e1.result), FALSE)
               ELSE /\ ex' = [e1 EXCEPT !.pc = "kvset", !.writes = 1]
                    /\ kvlog' = NoLog
                    /\ UNCHANGED store
            /\ UNCHANGED <<now, env, conc, redis, prev, fp, ag, sse>>

\* fetch rejects: httpRequest throws
FetchFail ==
    /\ ex.pc = "fetch"
    /\ ex' = [ex EXCEPT !.pc = "thrown", !.net = 1, !.error = "fetch failed"]
    /\ kvlog' = NoLog
    /\ UNCHANGED <<now, env, conc, store, redis, prev, fp, ag, sse>>

\* await kv.set(...) on the external store succeeds
KvSetReturn ==
    /\ ex.pc = "kvset"
    /\ redis' = RedisSet(redis, ex.key, JsonStringify(ex.result), ConfiguredTtl(env.ttl), now)
    /\ ex' = [ex EXCEPT !.pc = "returned", !.writeAt = now]
    /\ kvlog' = LogOp("set", ex.key, JsonStringify(ex.result), FALSE)
    /\ UNCHANGED <<now, env, conc, store, prev, fp, ag, sse>>

\* redis.set throws: the client ignores it
KvSetFail ==
    /\ ex.pc = "kvset"
    /\ ex' = [ex EXCEPT !.pc = "returned", !.setFailed = TRUE]
    /\ kvlog' = LogOp("set", ex.key, JsonStringify(ex.result), TRUE)
    /\ UNCHANGED <<now, env, conc, store, redis, prev, fp, ag, sse>>

\* another writer of the external store leaves, under the key of a request,
\* a value that is no envelope, while no execution is under way
ExternalWrite ==
    \E req \in Workloads[env.workload], v \in {CorruptValue, EmptyValue} :
        /\ CanCache(req)
        /\ env.backend = "redis"
        /\ ex.pc \in {"idle"} \cup Terminal
        /\ redis' = MapPut(redis, CacheKey(req), [value |-> v, exp |-> 0, setAt |-> 0, ttl |-> 0])
        /\ kvlog' = NoLog
        /\ UNCHANGED <<now, env, conc, store, ex, prev, fp, ag, sse>>

\* time passes
Tick ==
    /\ now < StartMs + MaxTicks * TickMs
    /\ now' = now + TickMs
    /\ kvlog' = NoLog
    /\ UNCHANGED <<env, conc, store, redis, ex, prev, fp, ag, sse>>

-----------------------------------------------------------------------------
\* Several executions of httpRequest at once on one in-memory store
\* (SpecConc).  Each runs once; between two awaits an execution runs alone
\* (one thread), so its steps are those of Enter, FetchReturn and FetchFail.

\* the number of executions
MaxProcs == 2
Procs == 1..MaxProcs

\* one fingerprint: the same GET, spelled in two ways
ConcRequests == {GetA, GetALower}

\* e: the execution, as ex; saw: the number of cache writes completed when it
\* read the cache
NoProcs == [p \in Procs |-> [e |-> IdleEx, saw |-> 0]]

CompletedWrites(c) == Cardinality({p \in Procs : c[p].e.writes = 1})

\* httpRequest(req) up to await kv.get(cacheKey), whose body runs at the call,
\* and on to the return of a hit or to the call of fetch
ConcEnter ==
    \E p \in Procs, req \in ConcRequests :
        LET h  == Head1[req]
            e1 == [IdleEx EXCEPT !.via = "direct", !.called = TRUE, !.req = req,
                                 !.key = h.key, !.canCache = h.canCache,
                                 !.authGet = h.authGet, !.initBody = h.initBody,
                                 !.absent = h.key \notin DOMAIN store, !.reads = 1]
            g  == MemGet(store, e1.key, now)
        IN  /\ conc[p].e.pc = "idle"
            /\ h.error = "none" /\ e1.canCache
            /\ conc' = [conc EXCEPT ![p] = [e |-> AfterGet(e1, g.ret),
                                             saw |-> CompletedWrites(conc)]]
            /\ store' = g.map
            /\ kvlog' = LogOp("get", e1.key, g.ret, FALSE)
            /\ UNCHANGED <<now, env, redis, ex, prev, fp, ag, sse>>

\* fetch resolves for one execution: the envelope is built and kv.set, whose
\* body runs at the call, puts it in the Map
ConcFetchReturn ==
    \E p \in Procs, r \in Responses :
        LET e  == conc[p].e
            e1 == [e EXCEPT !.net = 1, !.resp = r, !.result = FreshResult(e, r)]
            ttl == ConfiguredTtl(env.ttl)
        IN  /\ e.pc = "fetch"
            /\ Stores(e1)
            /\ conc' = [conc EXCEPT ![p].e = [e1 EXCEPT !.pc = "returned", !.writes = 1,
                                                        !.writeAt = now]]
            /\ store' = MemSet(store, e1.key, JsonStringify(e1.result), ttl, now)
            /\ kvlog' = LogOp("set", e1.key, JsonStringify(e1.result), FALSE)
            /\ UNCHANGED <<now, env, redis, ex, prev, fp, ag, sse>>

\* fetch rejects for one execution
ConcFetchFail ==
    \E p \in Procs :
        /\ conc[p].e.pc = "fetch"
        /\ conc' = [conc EXCEPT ![p].e = [@ EXCEPT !.pc = "thrown", !.net = 1,
                                                   !.error = "fetch failed"]]
        /\ kvlog' = NoLog
        /\ UNCHANGED <<now, env, store, redis, ex, prev, fp, ag, sse>>

-----------------------------------------------------------------------------
\* The text of the model (agent/route.ts).  A text is a sequence of symbols:
\* the substrings extractActionsFromText looks for, one symbol each, and
\* words, JSON atoms and white space between them.

Marker == "ACTIONS:"
\* three backquotes, and three backquotes followed by json
Fence == "<fence>"
FenceJson == "<fence>json"
TagOpen == "<actions>"
TagClose == "</actions>"
Quote == "\""
Space == " "
Newline == "\n"
WhiteSpace == {Space, Newline}
\* JSON texts that hold none of the symbols above: two objects and a number
JsonAtoms == {"{a}", "{b}", "1"}

\* indexOf / lastIndexOf of a symbol, 0 for -1
IndexOf(s, x) ==
    IF \E i \in 1..Len(s) : s[i] = x
    THEN CHOOSE i \in 1..Len(s) : s[i] = x /\ \A j \in 1..(i - 1) : s[j] # x
    ELSE 0

LastIndexOf(s, x) ==
    IF \E i \in 1..Len(s) : s[i] = x
    THEN CHOOSE i \in 1..Len(s) : s[i] = x /\ \A j \in (i + 1)..Len(s) : s[j] # x
    ELSE 0

\* indexOf from position i on
IndexFrom(s, x, i) ==
    IF \E j \in i..Len(s) : s[j] = x
    THEN CHOOSE j \in i..Len(s) : s[j] = x /\ \A k \in i..(j - 1) : s[k] # x
    ELSE 0

\* after.replace(/<fence>(?:json)?/g, '')
StripFences(s) == SelectSeq(s, LAMBDA c : c \notin {Fence, FenceJson})

\* String.prototype.trim
Trim(s) ==
    IF \A i \in 1..Len(s) : s[i] \in WhiteSpace THEN <<>>
    ELSE LET first == CHOOSE i \in 1..Len(s) :
                          s[i] \notin WhiteSpace /\ \A j \in 1..(i - 1) : s[j] \in WhiteSpace
             last  == CHOOSE i \in 1..Len(s) :
                          s[i] \notin WhiteSpace /\ \A j \in (i + 1)..Len(s) : s[j] \in WhiteSpace
         IN  SubSeq(s, first, last)

\* JSON values: an atom, a string (its symbols), an array (its values) or an
\* object
JAtom(x) == [t |-> "atom", v |-> <<x>>]
JText(x) == [t |-> "text", v |-> x]
JArray(x) == [t |-> "array", v |-> x]
\* an object with one member, written { value }: the member's name is left out
JObj(x) == [t |-> "object", v |-> <<x>>]
ParseFail == [ok |-> FALSE, val |-> JArray(<<>>), next |-> 0]

\* the first position from i on that holds no white space
RECURSIVE SkipWs(_, _)
SkipWs(s, i) == IF i <= Len(s) /\ s[i] \in WhiteSpace THEN SkipWs(s, i + 1) ELSE i

\* JSON.parse, by recursive descent: the value that starts at s[i] and the
\* position after it
RECURSIVE ParseValue(_, _)
RECURSIVE ParseElems(_, _, _)
ParseValue(s, i) ==
    IF i > Len(s) THEN ParseFail
    ELSE IF s[i] \in JsonAtoms THEN [ok |-> TRUE, val |-> JAtom(s[i]), next |-> i + 1]
    ELSE IF s[i] = Quote
    THEN LET j == IndexFrom(s, Quote, i + 1)
         IN  IF j = 0 \/ \E k \in (i + 1)..(j - 1) : s[k] = Newline THEN ParseFail
             ELSE [ok |-> TRUE, val |-> JText(SubSeq(s, i + 1, j - 1)), next |-> j + 1]
    ELSE IF s[i] = "{"
    THEN LET r == ParseValue(s, SkipWs(s, i + 1))
             k == SkipWs(s, r.next)
         IN  IF r.ok /\ k <= Len(s) /\ s[k] = "}"
             THEN [ok |-> TRUE, val |-> JObj(r.val), next |-> k + 1]
             ELSE ParseFail
    ELSE IF s[i] = "["
    THEN LET k == SkipWs(s, i + 1)
         IN  IF k <= Len(s) /\ s[k] = "]"
             THEN [ok |-> TRUE, val |-> JArray(<<>>), next |-> k + 1]
             ELSE ParseElems(s, k, <<>>)
    ELSE ParseFail

ParseElems(s, i, acc) ==
    LET r == ParseValue(s, i)
        k == SkipWs(s, r.next)
    IN  IF ~r.ok \/ k > Len(s) THEN ParseFail
        ELSE IF s[k] = "," THEN ParseElems(s, SkipWs(s, k + 1), Append(acc, r.val))
        ELSE IF s[k] = "]" THEN [ok |-> TRUE, val |-> JArray(Append(acc, r.val)), next |-> k + 1]
        ELSE ParseFail

\* JSON.parse(json): ok is FALSE where it throws
JsonParseText(s) ==
    LET r == ParseValue(s, SkipWs(s, 1))
    IN  IF r.ok /\ SkipWs(s, r.next) > Len(s) THEN r ELSE ParseFail

\* JSON.stringify of a parsed value
RECURSIVE JsonStringifyValue(_)
RECURSIVE JsonStringifyElems(_)
JsonStringifyValue(x) ==
    IF x.t = "atom" THEN x.v
    ELSE IF x.t = "text" THEN <<Quote>> \o x.v \o <<Quote>>
    ELSE IF x.t = "object" THEN <<"{">> \o JsonStringifyValue(x.v[1]) \o <<"}">>
    ELSE <<"[">> \o JsonStringifyElems(x.v) \o <<"]">>

JsonStringifyElems(xs) ==
    IF xs = <<>> THEN <<>>
    ELSE IF Len(xs) = 1 THEN JsonStringifyValue(xs[1])
    ELSE JsonStringifyValue(xs[1]) \o <<",">> \o JsonStringifyElems(Tail(xs))

NoActions == [found |-> FALSE, actions |-> <<>>]

\* Array.isArray(arr) ? arr : null, null in the catch
ArrayOrNull(json) ==
    LET r == JsonParseText(json)
    IN  IF r.ok /\ r.val.t = "array" THEN [found |-> TRUE, actions |-> r.val.v] ELSE NoActions

\* text.match(/<actions>([\s\S]*?)<\/actions>/i): the first block, 0 if none
TagBlock(text) ==
    LET opens == {i \in 1..Len(text) : text[i] = TagOpen /\ IndexFrom(text, TagClose, i + 1) # 0}
    IN  IF opens = {} THEN [found |-> FALSE, inner |-> <<>>]
        ELSE LET i == CHOOSE i \in opens : \A j \in opens : i <= j
             IN  [found |-> TRUE, inner |-> SubSeq(text, i + 1, IndexFrom(text, TagClose, i + 1) - 1)]

\* extractActionsFromText as it would be if the tag block were read only when
\* the text holds no marker
ExtractActionsMarkerFirst(text) ==
    LET markerIdx == LastIndexOf(text, Marker)
        after     == SubSeq(text, markerIdx + 1, Len(text))
        cleaned   == Trim(StripFences(after))
        start     == IndexOf(cleaned, "[")
        end       == LastIndexOf(cleaned, "]")
        m         == TagBlock(text)
    IN  IF markerIdx # 0
        THEN (IF start # 0 /\ end # 0 /\ end > start
              THEN ArrayOrNull(SubSeq(cleaned, start, end)) ELSE NoActions)
        ELSE IF m.found THEN ArrayOrNull(Trim(m.inner))
        ELSE NoActions

\* extractActionsFromText: found is FALSE for null
ExtractActionsFromText(text) ==
    LET markerIdx == LastIndexOf(text, Marker)
        after     == SubSeq(text, markerIdx + 1, Len(text))
        cleaned   == Trim(StripFences(after))
        start     == IndexOf(cleaned, "[")
        end       == LastIndexOf(cleaned, "]")
        m         == TagBlock(text)
    IN  IF markerIdx # 0 /\ start # 0 /\ end # 0 /\ end > start
        THEN ArrayOrNull(SubSeq(cleaned, start, end))
        ELSE IF m.found THEN ArrayOrNull(Trim(m.inner))
        ELSE NoActions

-----------------------------------------------------------------------------
\* POST /api/agent (agent/route.ts), one action per stretch of code between
\* two awaits

\* the largest number of elements of an action array the model writes
MaxActions == 2
\* the number of symbols of a chunk of the model's stream
ChunkLen == 2

\* the events on the stream: sseEncode's arguments, the payload as the symbols
\* of its string; src tells the summary of the tool from the model's text
Event(event, id, status, error, payload, src) ==
    [event |-> event, id |-> id, status |-> status, error |-> error,
     payload |-> payload, src |-> src]
StepStart(id, type) == Event("step_start", id, "running", "none", <<>>, type)
StepEnd(id, status, error) == Event("step_end", id, status, error, <<>>, "none")
Token(chunk, src) == Event("token", "none", "none", "none", chunk, src)
ActionEvent(a) == Event("action", "none", "none", "none", JsonStringifyValue(a), "none")
DoneEvent == Event("done", "none", "none", "none", <<>>, "none")

\* 'http-' + Date.now() and 'llm-' + Date.now()
StepId(prefix, t) == [prefix |-> prefix, at |-> t]
NoStepId == [prefix |-> "none", at |-> 0]

StepRecord(id, type, status) == [id |-> id, type |-> type, status |-> status]

\* 'HTTP ' + result.status + ' in ' + result.responseTime + 'ms'
StatusText == (200 :> "200" @@ 404 :> "404" @@ 500 :> "500")
SummaryOf(result) == <<"HTTP", Space, StatusText[result.status], Space, "in", Space, "ms">>

\* the message of the TypeError enqueue and close throw on a stream that is
\* not readable any more
InvalidState == "Invalid state"

\* the request's tool field
NoTool == [name |-> "none", hasArgs |-> FALSE, args |-> NoRequest]
HttpTool(args) == [name |-> "http_request", hasArgs |-> TRUE, args |-> args]
Tools == {NoTool, HttpTool(GetA), [name |-> "http_request", hasArgs |-> FALSE, args |-> NoRequest],
          [name |-> "other", hasArgs |-> FALSE, args |-> NoRequest]}

\* tool.args || {}
ToolArgs(tool) == IF tool.hasArgs THEN tool.args ELSE NoRequest

\* the bodies of the requests to the route
AgentInputs ==
    { [malformed |-> m, apiKey |-> k, message |-> msg, mode |-> mode, tool |-> tool] :
        m \in {FALSE}, k \in {TRUE}, msg \in {<<"hello">>}, mode \in {"agent", "chat", "undefined"}, tool \in Tools }
    \cup
    { [malformed |-> m, apiKey |-> k, message |-> msg, mode |-> "agent", tool |-> HttpTool(GetA)] :
        m \in BOOLEAN, k \in BOOLEAN, msg \in {<<>>, <<Space, Newline>>, <<"hello">>} }

NoInput == [malformed |-> FALSE, apiKey |-> FALSE, message |-> <<>>, mode |-> "none", tool |-> NoTool]

\* what the model writes: words, then nothing, or the marker and an array of
\* elements, or the marker and something that is no JSON array
ObjA == <<"{a}">>
ObjB == <<"{b}">>
ObjFence == <<"{", Quote, Fence, Quote, "}">>
ObjMarker == <<"{", Quote, Marker, Quote, "}">>
Elems == {ObjA, ObjFence, ObjMarker}

RECURSIVE JoinElems(_)
JoinElems(es) ==
    IF es = <<>> THEN <<>>
    ELSE IF Len(es) = 1 THEN es[1]
    ELSE es[1] \o <<",", Space>> \o JoinElems(Tail(es))

ArrayText(es) == <<"[">> \o JoinElems(es) \o <<"]">>

ElemSeqs == UNION { [1..n -> Elems] : n \in 0..MaxActions }

\* texts with a tag block that holds the array [{b}]: alone, or before a
\* marker that is followed by words, by an array or by a malformed array, or
\* after a marker that is followed by an array or by words
TagKinds ==
    {"tag", "tagMarkerProse", "tagMarkerArray", "tagMarkerBad", "markerArrayTag", "markerProseTag"}

TagText == <<TagOpen, "[", "{b}", "]", TagClose>>

ModelOutputs ==
    { [kind |-> "array", fenced |-> FALSE, elems |-> es] : es \in ElemSeqs }
    \cup { [kind |-> "array", fenced |-> TRUE, elems |-> es] : es \in {<<>>, <<ObjA>>, <<ObjA, ObjA>>} }
    \cup { [kind |-> k, fenced |-> FALSE, elems |-> <<>>] :
             k \in {"prose", "gaps", "badjson", "unclosed", "noarray"} }
    \cup { [kind |-> k, fenced |-> FALSE, elems |-> <<ObjA>>] : k \in TagKinds }

TextOf(d) ==
    IF d.kind = "array"
    THEN <<"hi", Newline, Marker, Newline>> \o
         (IF d.fenced THEN <<FenceJson, Newline>> \o ArrayText(d.elems) \o <<Newline, Fence>>
          ELSE ArrayText(d.elems))
    ELSE IF d.kind = "badjson" THEN <<"hi", Newline, Marker, Space, "[", "{a}", ",", "]">>
    ELSE IF d.kind = "unclosed" THEN <<"hi", Newline, Marker, Space, "[", "{a}">>
    ELSE IF d.kind = "noarray" THEN <<"hi", Newline, Marker, Space, "{a}">>
    ELSE IF d.kind = "tag" THEN <<"hi", Newline>> \o TagText
    ELSE IF d.kind = "tagMarkerProse" THEN TagText \o <<Newline, Marker, Space, "hi">>
    ELSE IF d.kind = "tagMarkerArray" THEN TagText \o <<Newline, Marker, Space>> \o ArrayText(d.elems)
    ELSE IF d.kind = "tagMarkerBad" THEN TagText \o <<Newline, Marker, Space, "[", "{a}", ",", "]">>
    ELSE IF d.kind = "markerArrayTag" THEN <<Marker, Space>> \o ArrayText(d.elems) \o <<Newline>> \o TagText
    ELSE IF d.kind = "markerProseTag" THEN <<Marker, Space, "hi", Newline>> \o TagText
    ELSE <<"hi", Space, "hi">>

\* the chunks reader.read() yields for a text: ChunkLen symbols each
RECURSIVE SplitChunks(_)
SplitChunks(text) ==
    IF Len(text) <= ChunkLen THEN (IF text = <<>> THEN <<>> ELSE <<text>>)
    ELSE <<SubSeq(text, 1, ChunkLen)>> \o SplitChunks(SubSeq(text, ChunkLen + 1, Len(text)))

\* "gaps": the stream also yields chunks that decode to nothing
ChunksOf(d) ==
    IF d.kind = "gaps" THEN <<<<>>>> \o SplitChunks(TextOf(d)) \o <<<<>>>>
    ELSE SplitChunks(TextOf(d))

NoOutput == [kind |-> "none", fenced |-> FALSE, elems |-> <<>>]
NoResponseYet == [status |-> 0, body |-> "none"]

\* pc: where start() (or POST, outside agent mode) is waiting;
\* stream: the state of the ReadableStream; connected: the client is there
AgIdle ==
    [pc |-> "idle", mode |-> "none", tool |-> NoTool, stream |-> "none", connected |-> TRUE,
     toolStepId |-> NoStepId, llmStepId |-> NoStepId,
     events |-> <<>>, assistantText |-> <<>>, stepRecords |-> <<>>, saves |-> <<>>,
     output |-> NoOutput, chunks |-> <<>>, toolCalls |-> 0, modelCalls |-> 0,
     response |-> NoResponseYet, raw |-> <<>>, outcome |-> "none", input |-> NoInput]

AgInFlight == {"tool", "model", "read", "save", "saveCatch"}
AgOver == {"closed", "errored"}

Emit(a, ev) == [a EXCEPT !.events = Append(@, ev)]
Push(a, rec) == [a EXCEPT !.stepRecords = Append(@, rec)]

\* saveRun({ model, mode, userPrompt, assistantText, steps }) is called
Transcript(a, text) == [mode |-> a.mode, assistantText |-> text, steps |-> a.stepRecords]
HandOff(a, text) == [a EXCEPT !.saves = Append(@, Transcript(a, text))]

\* controller.close(): throws unless the stream is readable, and then start()
\* ends with that error
Close(a) ==
    IF a.stream = "open" THEN [a EXCEPT !.stream = "closed", !.pc = "closed"]
    ELSE [a EXCEPT !.pc = "errored"]

\* OuterCatch as it would be without the done event
OuterCatchNoDone(a, msg) ==
    IF a.stream = "open"
    THEN LET a1 == Emit(a, StepEnd(a.llmStepId, "failed", msg))
             a2 == Push(a1, StepRecord(a.llmStepId, "llm", "failed"))
         IN  [HandOff(a2, <<>>) EXCEPT !.pc = "saveCatch"]
    ELSE Close(a)

\* the outer catch: step_end failed, done, saveRun with assistantText '';
\* an enqueue that throws leaves to the finally
OuterCatch(a, msg) ==
    IF a.stream = "open"
    THEN LET a1 == Emit(a, StepEnd(a.llmStepId, "failed", msg))
             a2 == Push(a1, StepRecord(a.llmStepId, "llm", "failed"))
             a3 == Emit(a2, DoneEvent)
         IN  [HandOff(a3, <<>>) EXCEPT !.pc = "saveCatch"]
    ELSE Close(a)

\* step_start of the model step and the call of streamText
StartModel(a) ==
    IF a.stream = "open"
    THEN [Emit(a, StepStart(a.llmStepId, "llm")) EXCEPT !.pc = "model", !.modelCalls = @ + 1]
    ELSE OuterCatch(a, InvalidState)

\* AfterTool as it would be if a failed tool got no step_end
AfterToolNoStepEnd(a, e) ==
    IF a.stream # "open" THEN OuterCatch(a, InvalidState)
    ELSE IF e.pc = "returned"
    THEN LET a1 == Emit(a, StepEnd(a.toolStepId, "succeeded", "none"))
             a2 == Emit(a1, Token(SummaryOf(e.result), "summary"))
         IN  StartModel(Push(a2, StepRecord(a.toolStepId, "http", "succeeded")))
    ELSE StartModel(Push(a, StepRecord(a.toolStepId, "http", "failed")))

\* AfterTool as it would be without the inner catch: the error of the tool
\* goes to the outer catch
AfterToolOuterCatch(a, e) ==
    IF a.stream # "open" THEN OuterCatch(a, InvalidState)
    ELSE IF e.pc = "returned"
    THEN LET a1 == Emit(a, StepEnd(a.toolStepId, "succeeded", "none"))
             a2 == Emit(a1, Token(SummaryOf(e.result), "summary"))
         IN  StartModel(Push(a2, StepRecord(a.toolStepId, "http", "succeeded")))
    ELSE OuterCatch(a, e.error)

\* after await httpRequest(...): e is the execution that is over
AfterTool(a, e) ==
    IF a.stream # "open" THEN OuterCatch(a, InvalidState)
    ELSE IF e.pc = "returned"
    THEN LET a1 == Emit(a, StepEnd(a.toolStepId, "succeeded", "none"))
             a2 == Emit(a1, Token(SummaryOf(e.result), "summary"))
         IN  StartModel(Push(a2, StepRecord(a.toolStepId, "http", "succeeded")))
    ELSE LET a1 == Emit(a, StepEnd(a.toolStepId, "failed", e.error))
         IN  StartModel(Push(a1, StepRecord(a.toolStepId, "http", "failed")))

RECURSIVE EmitActions(_, _)
EmitActions(a, actions) ==
    IF actions = <<>> THEN a
    ELSE EmitActions(Emit(a, ActionEvent(Head(actions))), Tail(actions))

\* Finish as it would be with the actions emitted after step_end
FinishActionsAfterStepEnd(a) ==
    LET x == ExtractActionsFromText(a.assistantText)
    IN  IF a.stream # "open" THEN OuterCatch(a, InvalidState)
        ELSE LET a2 == Emit(a, StepEnd(a.llmStepId, "succeeded", "none"))
                 a3 == Push(a2, StepRecord(a.llmStepId, "llm", "succeeded"))
                 a4 == IF x.found THEN EmitActions(a3, x.actions) ELSE a3
                 a5 == Emit(a4, DoneEvent)
             IN  [HandOff(a5, a.assistantText) EXCEPT !.pc = "save"]

\* after the loop: the actions (an enqueue that throws is caught there), then
\* step_end succeeded, done and saveRun
Finish(a) ==
    LET x  == ExtractActionsFromText(a.assistantText)
        a1 == IF x.found /\ a.stream = "open" THEN EmitActions(a, x.actions) ELSE a
    IN  IF a.stream # "open" THEN OuterCatch(a, InvalidState)
        ELSE LET a2 == Emit(a1, StepEnd(a.llmStepId, "succeeded", "none"))
                 a3 == Push(a2, StepRecord(a.llmStepId, "llm", "succeeded"))
                 a4 == Emit(a3, DoneEvent)
             IN  [HandOff(a4, a.assistantText) EXCEPT !.pc = "save"]

Respond(status, body) == [AgIdle EXCEPT !.pc = "responded", !.response = [status |-> status, body |-> body]]

\* IsAgentMode as it would be if only the chat mode left the agent path
IsAgentModeUnlessChat(mode) == mode # "chat"

\* mode === 'agent'; a request without a mode has the mode "undefined"
IsAgentMode(mode) == mode = "agent"

\* IsEmptyMessage as it would be without the trim
IsEmptyMessageUntrimmed(message) == message = <<>>

\* !userPrompt.trim()
IsEmptyMessage(message) == Trim(message) = <<>>

\* POST up to its first await after req.json(): a response without a stream,
\* the model call outside agent mode, or the stream and start() up to the
\* call of httpRequest or of streamText
AgentPost ==
    \E in \in AgentInputs :
        LET a0 == [AgIdle EXCEPT !.mode = in.mode, !.tool = in.tool, !.stream = "open",
                                 !.llmStepId = StepId("llm-", now), !.input = in]
            a1 == [a0 EXCEPT !.toolStepId = StepId("http-", now)]
            idle == UNCHANGED <<now, env, conc, store, redis, ex, prev, kvlog, fp, sse>>
        IN  /\ ag.pc = "idle"
            /\ IF in.malformed
               THEN ag' = [Respond(500, "Agent error") EXCEPT !.input = in] /\ idle
               ELSE IF ~in.apiKey
               THEN ag' = [Respond(500, "Missing GOOGLE_GENERATIVE_AI_API_KEY") EXCEPT !.input = in] /\ idle
               ELSE IF IsEmptyMessage(in.message)
               THEN ag' = [Respond(400, "Empty message") EXCEPT !.input = in] /\ idle
               ELSE IF ~IsAgentMode(in.mode)
               THEN /\ ag' = [AgIdle EXCEPT !.pc = "plainModel", !.mode = in.mode, !.tool = in.tool,
                                            !.modelCalls = 1, !.input = in]
                    /\ idle
               ELSE IF in.tool.name = "http_request"
               THEN /\ ag' = [Emit(a1, StepStart(a1.toolStepId, "http")) EXCEPT
                                  !.pc = "tool", !.toolCalls = 1]
                    /\ Enter(ToolArgs(in.tool), "agent")
               ELSE /\ ag' = StartModel(a0)
                    /\ idle

\* await httpRequest(tool.args || {}) is over: step_end, the summary, and on
\* to the model
ToolReturn ==
    /\ ag.pc = "tool"
    /\ ex.pc \in {"returned", "thrown"}
    /\ ag' = AfterTool(ag, ex)
    /\ UNCHANGED <<now, env, conc, store, redis, ex, prev, kvlog, fp, sse>>

\* await streamText(...) returns and the reader is taken
StreamTextReturn ==
    \E d \in ModelOutputs :
        /\ ag.pc = "model"
        /\ ag' = [ag EXCEPT !.pc = "read", !.output = d, !.chunks = ChunksOf(d)]
        /\ UNCHANGED <<now, env, conc, store, redis, ex, prev, kvlog, fp, sse>>

\* await streamText(...) throws
StreamTextFail ==
    /\ ag.pc = "model"
    /\ ag' = OuterCatch(ag, "model failed")
    /\ UNCHANGED <<now, env, conc, store, redis, ex, prev, kvlog, fp, sse>>

\* await reader.read() yields a chunk: a token event unless it is empty
ReadChunk ==
    /\ ag.pc = "read"
    /\ ag.chunks # <<>>
    /\ LET chunk == Head(ag.chunks)
           a1 == [ag EXCEPT !.chunks = Tail(@)]
       IN  ag' = IF chunk = <<>> THEN a1
                 ELSE IF ag.stream # "open" THEN OuterCatch(a1, InvalidState)
                 ELSE [Emit(a1, Token(chunk, "model")) EXCEPT !.assistantText = @ \o chunk]
    /\ UNCHANGED <<now, env, conc, store, redis, ex, prev, kvlog, fp, sse>>

\* await reader.read() rejects
ReadFail ==
    /\ ag.pc = "read"
    /\ ag' = OuterCatch(ag, "stream failed")
    /\ UNCHANGED <<now, env, conc, store, redis, ex, prev, kvlog, fp, sse>>

\* await reader.read() yields done
ReadDone ==
    /\ ag.pc = "read"
    /\ ag.chunks = <<>>
    /\ ag' = Finish(ag)
    /\ UNCHANGED <<now, env, conc, store, redis, ex, prev, kvlog, fp, sse>>

\* saveRun: an identifier, null (no client, or the insert of the run failed),
\* or an error
SaveOutcomes == {"id", "null", "throws"}

\* AfterSave as it would be without the try/catch around saveRun
AfterSaveRethrows(a, outcome) ==
    [(IF outcome = "throws" \/ a.stream # "open" THEN OuterCatch(a, InvalidState) ELSE Close(a))
        EXCEPT !.outcome = outcome]

\* try { await saveRun(...) } catch {} and controller.close(), whose error
\* goes to the outer catch
AfterSave(a, outcome) ==
    [(IF a.stream = "open" THEN Close(a) ELSE OuterCatch(a, InvalidState))
        EXCEPT !.outcome = outcome]

\* await saveRun(...) of the try is over, whatever its outcome: close()
SaveReturn ==
    \E outcome \in SaveOutcomes :
        /\ ag.pc = "save"
        /\ ag' = AfterSave(ag, outcome)
        /\ UNCHANGED <<now, env, conc, store, redis, ex, prev, kvlog, fp, sse>>

\* await saveRun(...) of the catch is over, whatever its outcome: the finally
SaveCatchReturn ==
    \E outcome \in SaveOutcomes :
        /\ ag.pc = "saveCatch"
        /\ ag' = [Close(ag) EXCEPT !.outcome = outcome]
        /\ UNCHANGED <<now, env, conc, store, redis, ex, prev, kvlog, fp, sse>>

\* the client goes away while start() waits; the runtime cancels the stream,
\* or does not notice
Disconnect ==
    \E cancels \in BOOLEAN :
        /\ ag.pc \in AgInFlight
        /\ ag.connected
        /\ ag' = [ag EXCEPT !.connected = FALSE,
                            !.stream = IF cancels THEN "cancelled" ELSE @]
        /\ UNCHANGED <<now, env, conc, store, redis, ex, prev, kvlog, fp, sse>>

\* outside agent mode: await streamText(...) returns, result.toTextStreamResponse()
PlainReturn ==
    \E d \in ModelOutputs :
        /\ ag.pc = "plainModel"
        /\ ag' = [ag EXCEPT !.pc = "plainRead", !.output = d, !.chunks = ChunksOf(d),
                            !.response = [status |-> 200, body |-> "text stream"]]
        /\ UNCHANGED <<now, env, conc, store, redis, ex, prev, kvlog, fp, sse>>

\* outside agent mode: await streamText(...) throws, the catch of POST
PlainFail ==
    /\ ag.pc = "plainModel"
    /\ ag' = [ag EXCEPT !.pc = "responded", !.response = [status |-> 500, body |-> "Agent error"]]
    /\ UNCHANGED <<now, env, conc, store, redis, ex, prev, kvlog, fp, sse>>

\* the text stream response carries the next chunk as it is
PlainChunk ==
    /\ ag.pc = "plainRead"
    /\ ag.chunks # <<>>
    /\ ag' = [ag EXCEPT !.chunks = Tail(@), !.raw = @ \o Head(ag.chunks)]
    /\ UNCHANGED <<now, env, conc, store, redis, ex, prev, kvlog, fp, sse>>

PlainDone ==
    /\ ag.pc = "plainRead"
    /\ ag.chunks = <<>>
    /\ ag' = [ag EXCEPT !.pc = "plainClosed"]
    /\ UNCHANGED <<now, env, conc, store, redis, ex, prev, kvlog, fp, sse>>

\* ---- the event stream on the wire and the client that reads it ----
\* texts are sequences of symbols; "event:" and "data:" are one symbol each

MaxSseEvents == 2

EventTag == "event:"
DataTag == "data:"

\* sseEncode(event, data)
SseEncode(event, data) ==
    <<EventTag, Space, event, Newline, DataTag, Space>> \o data \o <<Newline, Newline>>

\* the chunks the route relays as token events, and the JSON text of an action
SseFragments ==
    { <<"a">>, <<"a", Space, "b">>, <<"a", Newline, "b">>, <<"a", Newline, Newline, "b">>,
      <<Space, "a">>, <<"a", Space>>, <<Newline>> }

SsePair(event, data) == [event |-> event, data |-> data]

SseEvents ==
    { SsePair(<<"token">>, f) : f \in SseFragments } \cup { SsePair(<<"action">>, <<"{a}">>) }

\* raw.split('\n')
RECURSIVE SplitLines(_)
SplitLines(raw) ==
    LET i == IndexOf(raw, Newline)
    IN  IF i = 0 THEN <<raw>>
        ELSE <<SubSeq(raw, 1, i - 1)>> \o SplitLines(SubSeq(raw, i + 1, Len(raw)))

StartsWith(line, tag) == line # <<>> /\ Head(line) = tag

\* the last event: line of the frame, 'message' if there is none
RECURSIVE EvOf(_, _)
EvOf(lines, ev) ==
    IF lines = <<>> THEN ev
    ELSE IF StartsWith(Head(lines), EventTag) THEN EvOf(Tail(lines), Trim(Tail(Head(lines))))
    ELSE EvOf(Tail(lines), ev)

\* dataLines: the data: lines of the frame, each sliced and trimmed
RECURSIVE DataLines(_)
DataLines(lines) ==
    IF lines = <<>> THEN <<>>
    ELSE IF StartsWith(Head(lines), EventTag) THEN DataLines(Tail(lines))
    ELSE IF StartsWith(Head(lines), DataTag)
         THEN <<Trim(Tail(Head(lines)))>> \o DataLines(Tail(lines))
    ELSE DataLines(Tail(lines))

\* dataLines.join('\n')
RECURSIVE JoinLines(_)
JoinLines(ls) ==
    IF ls = <<>> THEN <<>>
    ELSE IF Len(ls) = 1 THEN ls[1]
    ELSE ls[1] \o <<Newline>> \o JoinLines(Tail(ls))

\* flushEvent(raw): the pair read from the frame; a token, and an event of a
\* name the client does not know, adds its data to running
FlushEvent(c, raw) ==
    LET lines   == SplitLines(raw)
        ev      == EvOf(lines, <<"message">>)
        dataRaw == JoinLines(DataLines(lines))
        known   == {<<"step_start">>, <<"step_end">>, <<"action">>, <<"done">>}
    IN  [c EXCEPT !.got = Append(@, SsePair(ev, dataRaw)),
                  !.running = IF ev \notin known THEN @ \o dataRaw ELSE @]

\* buffer.indexOf('\n\n'), 0 for -1
IndexOfBlankLine(buffer) ==
    IF \E i \in 1..(Len(buffer) - 1) : buffer[i] = Newline /\ buffer[i + 1] = Newline
    THEN CHOOSE i \in 1..(Len(buffer) - 1) :
             /\ buffer[i] = Newline /\ buffer[i + 1] = Newline
             /\ \A j \in 1..(i - 1) : ~(buffer[j] = Newline /\ buffer[j + 1] = Newline)
    ELSE 0

\* while ((idx = buffer.indexOf('\n\n')) !== -1) { ... }
RECURSIVE DrainBuffer(_)
DrainBuffer(c) ==
    LET idx == IndexOfBlankLine(c.buffer)
    IN  IF idx = 0 THEN c
        ELSE LET eventChunk == SubSeq(c.buffer, 1, idx - 1)
                 c1 == [c EXCEPT !.buffer = SubSeq(@, idx + 2, Len(@))]
             IN  DrainBuffer(IF Trim(eventChunk) # <<>> THEN FlushEvent(c1, eventChunk) ELSE c1)

\* phase: the server's stream (idle, open, closed) or "finished" once the
\* client's loop is over; sent: the pairs enqueued; wire: what is on its way;
\* buffer, running, got: the client's
SseIdle ==
    [phase |-> "idle", sent |-> <<>>, wire |-> <<>>, buffer |-> <<>>, running |-> <<>>,
     got |-> <<>>]

\* controller.enqueue(encoder.encode(sseEncode(event, data)))
SseEnqueue ==
    \E e \in SseEvents :
        /\ sse.phase \in {"idle", "open"}
        /\ Len(sse.sent) < MaxSseEvents
        /\ sse' = [sse EXCEPT !.phase = "open", !.sent = Append(@, e),
                              !.wire = @ \o SseEncode(e.event[1], e.data)]
        /\ UNCHANGED <<now, env, conc, store, redis, ex, prev, kvlog, fp, ag>>

\* sseEncode('done', '') and controller.close()
SseDone ==
    /\ sse.phase = "open"
    /\ sse' = [sse EXCEPT !.phase = "closed", !.sent = Append(@, SsePair(<<"done">>, <<>>)),
                          !.wire = @ \o SseEncode("done", <<>>)]
    /\ UNCHANGED <<now, env, conc, store, redis, ex, prev, kvlog, fp, ag>>

\* reader.read() yields the next bytes, however the transport cut them
SseRead ==
    \E k \in 1..Len(sse.wire) :
        /\ sse.phase \in {"open", "closed"}
        /\ sse' = DrainBuffer([sse EXCEPT !.buffer = @ \o SubSeq(sse.wire, 1, k),
                                          !.wire = SubSeq(@, k + 1, Len(@))])
        /\ UNCHANGED <<now, env, conc, store, redis, ex, prev, kvlog, fp, ag>>

\* reader.read() yields done: the rest of the buffer is one more frame
SseEnd ==
    /\ sse.phase = "closed"
    /\ sse.wire = <<>>
    /\ sse' = [(IF Trim(sse.buffer) # <<>> THEN FlushEvent(sse, sse.buffer) ELSE sse)
                   EXCEPT !.phase = "finished"]
    /\ UNCHANGED <<now, env, conc, store, redis, ex, prev, kvlog, fp, ag>>

\* the in-memory client: no Upstash variables in the environment
Init ==
    /\ now = StartMs
    /\ env \in [backend : {"memory"}, ttl : TtlVars, workload : DOMAIN Workloads]
    /\ store = EmptyMap
    /\ redis = EmptyMap
    /\ ex = IdleEx
    /\ prev = Summary(IdleEx)
    /\ kvlog = NoLog
    /\ fp = FpIdle
    /\ ag = AgIdle
    /\ sse = SseIdle
    /\ conc = NoProcs

Next ==
    \/ Call
    \/ RoutePost
    \/ FetchReturn
    \/ FetchFail
    \/ Tick

Spec == Init /\ [][Next]_vars

\* the client of the external store: both Upstash variables are set
InitRedis ==
    /\ now = StartMs
    /\ env \in [backend : {"redis"}, ttl : TtlVars, workload : {"auth", "methods"}]
    /\ store = EmptyMap
    /\ redis = EmptyMap
    /\ ex = IdleEx
    /\ prev = Summary(IdleEx)
    /\ kvlog = NoLog
    /\ fp = FpIdle
    /\ ag = AgIdle
    /\ sse = SseIdle
    /\ conc = NoProcs

NextRedis ==
    \/ Call
    \/ RoutePost
    \/ KvGetReturn
    \/ KvGetFail
    \/ FetchReturn
    \/ FetchFail
    \/ KvSetReturn
    \/ KvSetFail
    \/ Tick

SpecRedis == InitRedis /\ [][NextRedis]_vars

\* the external store with another writer: cacheable GETs only
InitCorrupt ==
    /\ now = StartMs
    /\ env = [backend |-> "redis", ttl |-> [set |-> FALSE, n |-> 0], workload |-> "cache"]
    /\ store = EmptyMap
    /\ redis = EmptyMap
    /\ ex = IdleEx
    /\ prev = Summary(IdleEx)
    /\ kvlog = NoLog
    /\ fp = FpIdle
    /\ ag = AgIdle
    /\ sse = SseIdle
    /\ conc = NoProcs

\* (the entries of this run do not expire: the clock stands still)
NextCorrupt ==
    \/ Call
    \/ ExternalWrite
    \/ KvGetReturn
    \/ KvGetFail
    \/ FetchReturn
    \/ FetchFail
    \/ KvSetReturn
    \/ KvSetFail

SpecCorrupt == InitCorrupt /\ [][NextCorrupt]_vars

\* either client with HTTP_CACHE_TTL_SECONDS set to 0 or to 1: cacheable GETs
InitTtl ==
    /\ now = StartMs
    /\ env \in [backend : {"memory", "redis"},
                 ttl : {[set |-> TRUE, n |-> 0], [set |-> TRUE, n |-> 1]},
                 workload : {"cache"}]
    /\ store = EmptyMap
    /\ redis = EmptyMap
    /\ ex = IdleEx
    /\ prev = Summary(IdleEx)
    /\ kvlog = NoLog
    /\ fp = FpIdle
    /\ ag = AgIdle
    /\ sse = SseIdle
    /\ conc = NoProcs

NextTtl ==
    \/ Call
    \/ KvGetReturn
    \/ KvGetFail
    \/ FetchReturn
    \/ FetchFail
    \/ KvSetReturn
    \/ KvSetFail
    \/ Tick

SpecTtl == InitTtl /\ [][NextTtl]_vars

\* concurrent executions of one cacheable GET on the in-memory store
InitConc ==
    /\ now = StartMs
    /\ env \in [backend : {"memory"}, ttl : TtlVars, workload : {"cache"}]
    /\ store = EmptyMap
    /\ redis = EmptyMap
    /\ ex = IdleEx
    /\ prev = Summary(IdleEx)
    /\ kvlog = NoLog
    /\ fp = FpIdle
    /\ ag = AgIdle
    /\ sse = SseIdle
    /\ conc = NoProcs

NextConc ==
    \/ ConcEnter
    \/ ConcFetchReturn
    \/ ConcFetchFail
    \/ Tick

SpecConc == InitConc /\ [][NextConc]_vars

\* the fingerprinter alone: every descriptor, then edits, then the keys
InitFp ==
    /\ now = StartMs
    /\ env = [backend |-> "memory", ttl |-> [set |-> FALSE, n |-> 0], workload |-> "cache"]
    /\ store = EmptyMap
    /\ redis = EmptyMap
    /\ ex = IdleEx
    /\ prev = Summary(IdleEx)
    /\ kvlog = NoLog
    /\ \E a \in FpDescriptors : fp = [FpIdle EXCEPT !.phase = "input", !.a = a, !.b = a]
    /\ ag = AgIdle
    /\ sse = SseIdle
    /\ conc = NoProcs

\* one agent turn, the tool on the in-memory client
InitAgent ==
    /\ now = StartMs
    /\ env = [backend |-> "memory", ttl |-> [set |-> FALSE, n |-> 0], workload |-> "cache"]
    /\ store = EmptyMap
    /\ redis = EmptyMap
    /\ ex = IdleEx
    /\ prev = Summary(IdleEx)
    /\ kvlog = NoLog
    /\ fp = FpIdle
    /\ ag = AgIdle
    /\ sse = SseIdle
    /\ conc = NoProcs

NextAgent ==
    \/ AgentPost
    \/ FetchReturn
    \/ FetchFail
    \/ ToolReturn
    \/ StreamTextReturn
    \/ StreamTextFail
    \/ ReadChunk
    \/ ReadFail
    \/ ReadDone
    \/ SaveReturn
    \/ SaveCatchReturn
    \/ Disconnect
    \/ PlainReturn
    \/ PlainFail
    \/ PlainChunk
    \/ PlainDone

SpecAgent == InitAgent /\ [][NextAgent]_vars

\* what the awaits of a turn resolve by: the tool call, the model stream and
\* the persistence call each eventually return or fail
AgentProgress ==
    \/ FetchReturn
    \/ FetchFail
    \/ ToolReturn
    \/ StreamTextReturn
    \/ StreamTextFail
    \/ ReadChunk
    \/ ReadFail
    \/ ReadDone
    \/ SaveReturn
    \/ SaveCatchReturn

SpecAgentFair == SpecAgent /\ WF_vars(AgentProgress)

\* one event stream and its reader
NextSse ==
    \/ SseEnqueue
    \/ SseDone
    \/ SseRead
    \/ SseEnd

SpecSse == InitAgent /\ [][NextSse]_vars

NextFp ==
    \/ FpRecase
    \/ FpSwap
    \/ FpSetUrl
    \/ FpSetData
    \/ FpSetMethod
    \/ FpRun

SpecFp == InitFp /\ [][NextFp]_vars

-----------------------------------------------------------------------------
\* Properties

Over == {"returned", "thrown"}

\* C1: a GET, in any letter case, that carries an Authorization header, in any
\* letter case, neither reads nor writes the cache, performs a network call and
\* returns fromCache = false; two such executions in a row perform two network
\* calls.
C1_AuthGetNeverCached ==
    (ex.called /\ IsAuthGet(ex.req)) =>
        /\ ex.reads = 0 /\ ex.writes = 0 /\ kvlog = NoLog
        /\ ex.pc \in {"fetch"} \cup Over
        /\ ex.pc \in Over => ex.net = 1
        /\ ex.pc = "returned" => ~ex.result.fromCache
        /\ (ex.pc \in Over /\ prev.authGet /\ prev.pc \in Over) => prev.net + ex.net = 2

\* two authorized GETs in a row have returned while the store holds an entry
C1_Witness ==
    /\ ex.called /\ IsAuthGet(ex.req) /\ ex.pc = "returned"
    /\ prev.authGet /\ prev.pc = "returned"
    /\ prev.net = 1 /\ ex.net = 1
    /\ DOMAIN store # {}

SameRequest(a, b) == a.url = b.url /\ a.method = b.method /\ a.headers = b.headers

\* a step in which the request served after ex enters httpRequest
Enters == ex.pc \in Terminal /\ ex'.called /\ prev' = Summary(ex)

\* C2: with the in-memory store, when a cacheable GET that found no entry has
\* returned and the same request is executed next, within the TTL of the write,
\* the first made one network call and the second makes none and returns the
\* first one's status, headers and body with fromCache = true.
C2_CacheRoundTrip ==
    [][(/\ Enters
        /\ ex.pc = "returned" /\ ex.called /\ IsCacheableGet(ex.req) /\ ex.absent
        /\ SameRequest(ex'.req, ex.req)
        /\ now <= ex.writeAt + ConfiguredTtl(env.ttl) * 1000)
       => /\ ex.net = 1 /\ ~ex.result.fromCache
          /\ ex'.pc = "returned" /\ ex'.net = 0
          /\ ex'.result.fromCache
          /\ ex'.result.status = ex.result.status
          /\ ex'.result.headers = ex.result.headers
          /\ ex'.result.data = ex.result.data]_vars

\* the second of two executions of one key is served from the cache one tick
\* after the first wrote it with a TTL of one second
C2_Witness ==
    /\ ex.pc = "returned" /\ ex.result.fromCache /\ ex.net = 0
    /\ prev.pc = "returned" /\ prev.net = 1 /\ prev.key = ex.key
    /\ env.ttl = [set |-> TRUE, n |-> 1]
    /\ kvlog.op = "get" /\ ex.key \in DOMAIN store
    /\ now = store[ex.key].setAt + TickMs

IsNonGet(req) == ~IsInvalid(req) /\ ToUpperCase(req.method.v) # GET

\* C3: a request whose uppercased method is not GET never reads the cache and
\* leaves it unchanged, whatever its headers and whatever the store holds; it
\* performs a network call and returns fromCache = false.
C3_NonGetBypassesCache ==
    [][(ex'.called /\ IsNonGet(ex'.req)) =>
        /\ store' = store /\ redis' = redis /\ kvlog' = NoLog
        /\ ex'.reads = 0 /\ ex'.writes = 0
        /\ ex'.pc \in {"fetch"} \cup Over
        /\ ex'.pc \in Over => ex'.net = 1
        /\ ex'.pc = "returned" => ~ex'.result.fromCache]_vars

\* a request without Authorization whose method is not GET has returned from
\* the network while the store holds an entry
C3_Witness ==
    /\ ex.called /\ IsNonGet(ex.req) /\ ~CarriesAuthorization(ex.req)
    /\ ex.pc = "returned" /\ ex.net = 1
    /\ DOMAIN store # {}

\* the two header maps hold the same pairs of lower-cased name and value, each
\* as many times
HeaderEquiv(h1, h2) ==
    /\ Len(h1) = Len(h2)
    /\ \A i \in 1..Len(h1) :
        LET same(h) == {j \in 1..Len(h) : /\ ToLowerCase(h[j].k) = ToLowerCase(h1[i].k)
                                          /\ h[j].v = h1[i].v}
        IN  Cardinality(same(h1)) = Cardinality(same(h2))

FpKeyed == fp.phase = "keyed" /\ fp.ka # NoKey /\ fp.kb # NoKey

\* C4: two cacheable requests with the same method, URL and body whose header
\* maps hold the same name/value pairs, in any insertion order and any letter
\* case of the names, have the same fingerprint.
C4_FingerprintIgnoresOrderAndCase ==
    (/\ FpKeyed
     /\ fp.a.method = fp.b.method /\ fp.a.url = fp.b.url /\ fp.a.data = fp.b.data
     /\ HeaderEquiv(fp.a.headers, fp.b.headers))
    => fp.ka = fp.kb

\* C5 as claimed: a difference in the body, the URL or the method of two
\* descriptors with a fingerprint yields a different fingerprint.
C5_AnyDifferenceChangesFingerprint ==
    (FpKeyed /\ (fp.a.data # fp.b.data \/ fp.a.url # fp.b.url \/ fp.a.method # fp.b.method))
    => fp.ka # fp.kb

\* C5 as amended: of two descriptors with a fingerprint, those that differ in
\* the URL have different fingerprints, and those with the same URL and headers
\* have the same one, whatever their body and the letter case of their method.
C5_UrlChangesFingerprint ==
    FpKeyed =>
        /\ fp.a.url # fp.b.url => fp.ka # fp.kb
        /\ (fp.a.url = fp.b.url /\ fp.a.headers = fp.b.headers) => fp.ka = fp.kb

\* two GETs that differ in URL and in body are keyed
C5_Witness ==
    /\ FpKeyed
    /\ fp.a.url # fp.b.url /\ fp.a.data # fp.b.data
    /\ fp.ka # fp.kb

\* C6: in the in-memory store a get of a key never set returns absent, and a
\* get of a key set with a positive TTL t more than t seconds after the write
\* returns absent and removes that entry and no other.
C6_MemoryGetExpiry ==
    [][(kvlog'.op = "get" /\ env.backend = "memory") =>
        LET k == kvlog'.key
        IN  /\ k \notin DOMAIN store => (kvlog'.ret = NullValue /\ store' = store)
            /\ (/\ k \in DOMAIN store
                /\ store[k].ttl > 0
                /\ now > store[k].setAt + store[k].ttl * 1000)
               => /\ kvlog'.ret = NullValue
                  /\ DOMAIN store' = DOMAIN store \ {k}
                  /\ \A j \in DOMAIN store' : store'[j] = store[j]]_vars

\* a get has just found the entry of its key expired and removed it, and the
\* entry of another key is still there
C6_Witness ==
    /\ kvlog.op = "get" /\ kvlog.ret = NullValue
    /\ ex.pc = "fetch" /\ ~ex.absent
    /\ ex.key \notin DOMAIN store
    /\ DOMAIN store # {}

\* C7: httpRequest called with a missing or empty url or method throws before
\* any cache access and any network call and leaves the store unchanged; the
\* route answers 400 for such a body without calling httpRequest.
C7_ValidationFirst ==
    [][(ex' # ex /\ IsInvalid(ex'.req) /\ ex'.via # "none") =>
        /\ store' = store /\ redis' = redis /\ kvlog' = NoLog
        /\ ex'.reads = 0 /\ ex'.writes = 0 /\ ex'.net = 0
        /\ ex'.via = "direct" =>
            /\ ex'.called /\ ex'.pc = "thrown"
            /\ ex'.error \in {"URL is required", "Method is required"}
        /\ ex'.via = "route" =>
            /\ ~ex'.called /\ ex'.pc = "rejected"
            /\ RouteResponse(ex').status = 400]_vars

\* httpRequest has thrown for a missing method while the store holds an entry
C7_Witness ==
    /\ ex.called /\ ex.pc = "thrown" /\ MissingOrEmpty(ex.req.method)
    /\ ex.net = 0
    /\ DOMAIN store # {}

C9_CacheFailuresAreMisses ==
    /\ kvlog.failed => (kvlog.op = "set" \/ kvlog.ret = NullValue)
    /\ (/\ env.backend = "redis"
        /\ ex.called /\ IsCacheableGet(ex.req)
        /\ ex.getFailed
        /\ ex.pc \in Over
        /\ ex.writes = 1 => ex.setFailed)
       => /\ ex.net = 1
          /\ ex.pc = "thrown" => (ex.error = "fetch failed" /\ ex.resp = NoResponse)
          /\ ex.pc = "returned" =>
              /\ ex.writes = 1
              /\ ex.result = FreshResult(ex, ex.resp)
              /\ ~ex.result.fromCache

\* a cacheable GET has returned a fresh envelope after its read and its write
\* of the external store failed, while that store holds an entry for its key
C9_Witness ==
    /\ env.backend = "redis"
    /\ ex.called /\ IsCacheableGet(ex.req) /\ ex.pc = "returned"
    /\ ex.getFailed /\ ex.setFailed
    /\ ex.net = 1 /\ ~ex.result.fromCache
    /\ ex.key \in DOMAIN redis

\* C10: a returned envelope has fromCache = true exactly when the execution
\* made no network call; every value in the store is an envelope with
\* fromCache = false.
C10_FromCacheIffNoNetwork ==
    /\ (ex.called /\ ex.pc = "returned") => (ex.result.fromCache <=> ex.net = 0)
    /\ \A k \in DOMAIN store :
        /\ JsonParse(store[k].value).ok
        /\ ~JsonParse(store[k].value).val.fromCache

\* an envelope was returned from the cache with the flag set while the stored
\* copy has it unset
C10_Witness ==
    /\ ex.called /\ ex.pc = "returned" /\ ex.net = 0 /\ ex.result.fromCache
    /\ ex.key \in DOMAIN store
    /\ ~JsonParse(store[ex.key].value).val.fromCache

\* what the claim says fetch is given as body for the descriptor req
ExpectedBody(req) ==
    LET m == ToUpperCase(req.method.v)
    IN  IF m \in {POST, <<"P","U","T">>, PATCH} /\ req.data.t \notin {"undefined", "null"}
        THEN IF req.data.t = "string" THEN [t |-> "string", v |-> req.data.v]
             ELSE [t |-> "string", v |-> <<"{">> \o req.data.v \o <<"}">>]
        ELSE [t |-> "undefined", v |-> <<>>]

\* C11: whenever httpRequest has called fetch, the body it gave it is the
\* descriptor's body (a string verbatim, another value JSON-encoded) if the
\* uppercased method is POST, PUT or PATCH and the body is present, and no body
\* at all for every other method and for an absent body.
C11_BodyOnlyForBodyMethods ==
    (ex.called /\ (ex.pc = "fetch" \/ ex.net = 1)) =>
        /\ ex.initBody = ExpectedBody(ex.req)
        /\ ToUpperCase(ex.req.method.v) \notin BodyMethods => ex.initBody.t = "undefined"

\* a POST has returned from the network after transmitting its object
\* JSON-encoded
C11_Witness ==
    /\ ex.called /\ ex.req = PostObj /\ ex.pc = "returned" /\ ex.net = 1
    /\ ex.initBody = [t |-> "string", v |-> <<"{", "k", "}">>]

\* the positions of the events of one name
EventsNamed(events, name) == {i \in 1..Len(events) : events[i].event = name}

\* exactly one done event, and it is the last event
DoneLast(a) ==
    /\ Cardinality(EventsNamed(a.events, "done")) = 1
    /\ a.events[Len(a.events)].event = "done"

\* C12: in an agent turn whose client stays connected, no event follows a done
\* event and a closed stream carries exactly one done, as its last event; and
\* the turn leads to a closed stream with exactly one done, whether the tool
\* and the model succeeded or failed, unless the client disconnects.
C12_DoneExactlyOnce ==
    /\ [](ag.connected =>
            /\ EventsNamed(ag.events, "done") # {} => DoneLast(ag)
            /\ ag.stream = "closed" => DoneLast(ag))
    /\ (ag.pc \in AgInFlight) ~> (~ag.connected \/ (ag.stream = "closed" /\ DoneLast(ag)))

\* a turn whose tool failed and whose model failed is closed after its done
C12_Witness ==
    /\ ag.connected /\ ag.stream = "closed" /\ DoneLast(ag)
    /\ \E i \in EventsNamed(ag.events, "step_end") :
           ag.events[i].id = ag.toolStepId /\ ag.events[i].status = "failed"
    /\ \E i \in EventsNamed(ag.events, "step_end") :
           ag.events[i].id = ag.llmStepId /\ ag.events[i].status = "failed"

\* the turn asked for the http_request tool and httpRequest threw
ToolFailed == ag.tool.name = "http_request" /\ ag.mode = "agent" /\ ex.pc = "thrown"

\* the model step ended as succeeded
ModelSucceeded(a) ==
    /\ a.stepRecords # <<>>
    /\ a.stepRecords[Len(a.stepRecords)] = StepRecord(a.llmStepId, "llm", "succeeded")

\* C13: once the http_request tool of a turn has failed (a transport failure
\* or a validation error of httpRequest) and the client is connected, the
\* events start with step_start of the tool step, step_end failed of the same
\* id with the error message, and step_start of the model step, and the model
\* was called; when the model stream completes, the rest is the model's tokens,
\* then the action events if any, then step_end succeeded of the model step
\* and done.
C13_ToolFailureIsolated ==
    (ToolFailed /\ ag.connected /\ ag.pc \in (AgInFlight \ {"tool"}) \cup AgOver) =>
        LET e == ag.events
            n == Len(e)
        IN  /\ n >= 3
            /\ e[1] = StepStart(ag.toolStepId, "http")
            /\ e[2] = StepEnd(ag.toolStepId, "failed", ex.error)
            /\ ex.error \in {"fetch failed", "URL is required", "Method is required"}
            /\ e[3] = StepStart(ag.llmStepId, "llm")
            /\ ag.modelCalls = 1
            /\ ModelSucceeded(ag) =>
                /\ n >= 5
                /\ e[n] = DoneEvent
                /\ e[n - 1] = StepEnd(ag.llmStepId, "succeeded", "none")
                /\ \A i \in 4..(n - 2) :
                    \/ e[i].event = "token" /\ e[i].src = "model"
                    \/ e[i].event = "action" /\ \A j \in i..(n - 2) : e[j].event = "action"

\* the tool failed at transport level, the model wrote its text and the turn
\* is closed
C13_Witness ==
    /\ ToolFailed /\ ex.error = "fetch failed"
    /\ ag.connected /\ ag.pc = "closed" /\ ModelSucceeded(ag)
    /\ EventsNamed(ag.events, "token") # {}
    /\ DoneLast(ag)

\* the ids of the steps started and not ended by the first n events
RunningSteps(e, n) ==
    { e[i].id : i \in { i \in 1..n : /\ e[i].event = "step_start"
                                     /\ \A j \in (i + 1)..n :
                                            ~(e[j].event = "step_end" /\ e[j].id = e[i].id) } }

\* C14: at every moment of an agent turn at most one step is running; a
\* step_start comes when no step is running, a step_end only for the running
\* step and with status succeeded or failed, done only when no step is
\* running; and when the http_request tool was asked for, the model's
\* step_start comes after the tool step's step_end.
C14_StepsSequential ==
    LET e == ag.events
    IN  \A i \in 1..Len(e) :
            /\ Cardinality(RunningSteps(e, i)) <= 1
            /\ e[i].event = "step_start" =>
                /\ RunningSteps(e, i - 1) = {}
                /\ \A j \in 1..(i - 1) : e[j].event = "step_start" => e[j].id # e[i].id
            /\ e[i].event = "step_end" =>
                /\ e[i].id \in RunningSteps(e, i - 1)
                /\ e[i].status \in {"succeeded", "failed"}
            /\ e[i].event = "done" => RunningSteps(e, i - 1) = {}
            /\ (e[i].event = "step_start" /\ e[i].id = ag.llmStepId
                  /\ ag.tool.name = "http_request") =>
                \E j \in 1..(i - 1) : e[j].event = "step_end" /\ e[j].id = ag.toolStepId

\* a turn with a tool step and a model step, both started and ended, has
\* emitted done
C14_Witness ==
    /\ DoneLast(ag)
    /\ Cardinality(EventsNamed(ag.events, "step_start")) = 2
    /\ Cardinality(EventsNamed(ag.events, "step_end")) = 2
    /\ RunningSteps(ag.events, Len(ag.events)) = {}

\* the payloads of the action events, in the order of emission
RECURSIVE ActionPayloads(_)
ActionPayloads(e) ==
    IF e = <<>> THEN <<>>
    ELSE IF Head(e).event = "action" THEN <<Head(e).payload>> \o ActionPayloads(Tail(e))
    ELSE ActionPayloads(Tail(e))

\* C15: when the model's text ends with the marker and a JSON array of n
\* elements, fenced or not, the turn emits n action events carrying the
\* elements in array order (the elements of ModelOutputs are written the way
\* JSON.stringify writes them); when the text has no marker and no tag block,
\* or the marker is followed by no valid JSON array, no action event is
\* emitted; either way the turn ends with step_end succeeded and done.
C15_ActionsFollowArray ==
    (ag.connected /\ ag.pc = "save") =>
        /\ ModelSucceeded(ag) /\ DoneLast(ag)
        /\ ag.output.kind = "array" => ActionPayloads(ag.events) = ag.output.elems
        /\ ag.output.kind \in {"prose", "gaps", "badjson", "unclosed", "noarray"} =>
            ActionPayloads(ag.events) = <<>>

\* C16: while the client of an agent turn is connected, the transcript has
\* been handed to saveRun exactly once as soon as done is emitted and not
\* before, the stream is still open while saveRun is awaited, and once saveRun
\* is over, with an identifier, with null or with an error, the stream is
\* closed normally and done is still the last event; this on the path of the
\* try and on the path of the outer catch alike.
C16_PersistedOnceAfterDone ==
    (ag.mode = "agent" /\ ag.connected) =>
        /\ ag.pc \in {"tool", "model", "read"} =>
            /\ ag.saves = <<>>
            /\ EventsNamed(ag.events, "done") = {}
        /\ ag.pc \in {"save", "saveCatch"} =>
            /\ Len(ag.saves) = 1
            /\ DoneLast(ag)
            /\ ag.stream = "open"
        /\ ag.pc \notin {"tool", "model", "read", "save", "saveCatch"} =>
            /\ ag.pc = "closed"
            /\ ag.stream = "closed"
            /\ Len(ag.saves) = 1
            /\ DoneLast(ag)
            /\ ag.outcome \in SaveOutcomes

\* a turn whose model failed and whose saveRun threw is closed
C16_Witness ==
    /\ ag.pc = "closed"
    /\ ag.connected
    /\ ag.outcome = "throws"
    /\ Len(ag.saves) = 1
    /\ ag.stepRecords[Len(ag.stepRecords)] = StepRecord(ag.llmStepId, "llm", "failed")

\* the model's token payloads, concatenated in the order of emission
RECURSIVE RelayedText(_)
RelayedText(e) ==
    IF e = <<>> THEN <<>>
    ELSE IF Head(e).event = "token" /\ Head(e).src = "model"
         THEN Head(e).payload \o RelayedText(Tail(e))
    ELSE RelayedText(Tail(e))

\* C17: the assistant text of the transcript handed to saveRun is the
\* concatenation of the model's token events relayed so far (the summary token
\* of the tool left out), when the model completed and when it failed after
\* some fragments.
C17_SavedTextIsRelayedText ==
    (ag.connected /\ ag.saves # <<>>) =>
        ag.saves[1].assistantText = RelayedText(ag.events)

\* C18: outside agent mode no event is emitted, the tool is not executed even
\* when the request names one, nothing is handed to saveRun, the model is
\* called once, and what the response carries is the model's chunks as they
\* are, in order: the whole text once the stream is over, also when the text
\* holds a marker and an array.
C18_PlainModeBypasses ==
    (ag.mode \notin {"agent", "none"}) =>
        /\ ag.events = <<>>
        /\ ag.toolCalls = 0
        /\ ex = IdleEx
        /\ ag.saves = <<>>
        /\ ag.stepRecords = <<>>
        /\ ag.modelCalls = 1
        /\ ag.pc \in {"plainModel", "plainRead", "plainClosed", "responded"}
        /\ ag.pc \in {"plainRead", "plainClosed"} =>
            /\ Len(ag.raw) <= Len(TextOf(ag.output))
            /\ ag.raw = SubSeq(TextOf(ag.output), 1, Len(ag.raw))
        /\ ag.pc = "plainClosed" => ag.raw = TextOf(ag.output)

\* a chat request that names the http_request tool got the model's text, a
\* marker and an array of one element, as it is
C18_Witness ==
    /\ ag.mode = "chat"
    /\ ag.tool = HttpTool(GetA)
    /\ ag.pc = "plainClosed"
    /\ ag.output.kind = "array" /\ Len(ag.output.elems) = 1
    /\ ag.raw = TextOf(ag.output)
    /\ ag.events = <<>>

\* the data of the token pairs, concatenated
RECURSIVE TokenText(_)
TokenText(pairs) ==
    IF pairs = <<>> THEN <<>>
    ELSE IF Head(pairs).event = <<"token">> THEN Head(pairs).data \o TokenText(Tail(pairs))
    ELSE TokenText(Tail(pairs))

\* C19: once the client has read the whole stream, the pairs of event name
\* and data it read from the frames are the pairs the server enqueued, in
\* order, whatever line breaks, blank lines or spaces the token fragments
\* hold, and the text it accumulated is the concatenation of the fragments.
C19_FramesRoundTrip ==
    sse.phase = "finished" =>
        /\ sse.got = sse.sent
        /\ TokenText(sse.got) = TokenText(sse.sent)
        /\ sse.running = TokenText(sse.sent)

\* C20: when the client has gone away during an agent turn, in the tool
\* phase, during the relay of the tokens or after it, the turn still hands
\* the transcript to saveRun, exactly once, before it is over.
C20_DisconnectStillPersists ==
    (ag.mode = "agent" /\ ~ag.connected /\ ag.pc \in AgOver) => Len(ag.saves) = 1

\* the http_request tool of the turn returned a result
ToolSucceeded == ag.tool.name = "http_request" /\ ag.mode = "agent" /\ ex.pc = "returned"

\* C21: once the http_request tool of a turn has succeeded and the client is
\* connected, the events start with step_start of the tool step, then the
\* token with the one-line summary, then step_end succeeded of the tool step:
\* the summary comes while the tool step is running.
C21_SummaryBeforeStepEnd ==
    (ToolSucceeded /\ ag.connected /\ ag.pc \in (AgInFlight \ {"tool"}) \cup AgOver) =>
        /\ Len(ag.events) >= 3
        /\ ag.events[1] = StepStart(ag.toolStepId, "http")
        /\ ag.events[2] = Token(SummaryOf(ex.result), "summary")
        /\ ag.events[3] = StepEnd(ag.toolStepId, "succeeded", "none")

\* C22: every action event of a turn comes after the last token of the model
\* and after step_end of the model step, and before done; no token and no
\* step event follows an action event.
C22_ActionsAfterModelStep ==
    LET e == ag.events
    IN  \A i \in 1..Len(e) :
            e[i].event = "action" =>
                /\ \E j \in 1..(i - 1) : e[j].event = "step_end" /\ e[j].id = ag.llmStepId
                /\ \A j \in 1..(i - 1) : e[j].event # "done"
                /\ \A j \in (i + 1)..Len(e) : e[j].event \in {"action", "done"}

\* C22 (amended): every action event of a turn comes once the model stream
\* has ended, after the last token of the model, while the model step is
\* still running: after its step_start and before its step_end, which done
\* follows; between an action event and that step_end there are only action
\* events.
C22_ActionsBeforeStepEnd ==
    LET e == ag.events
    IN  \A i \in 1..Len(e) :
            e[i].event = "action" =>
                /\ ag.chunks = <<>> /\ ag.pc \notin {"tool", "model", "read"}
                /\ \E j \in 1..(i - 1) : e[j] = StepStart(ag.llmStepId, "llm")
                /\ \A j \in 1..(i - 1) : e[j].event # "done" /\ e[j] # StepEnd(ag.llmStepId, "succeeded", "none")
                /\ \A j \in (i + 1)..Len(e) : e[j].event # "token"
                /\ \E k \in (i + 1)..Len(e) :
                    /\ e[k] = StepEnd(ag.llmStepId, "succeeded", "none")
                    /\ \A j \in (i + 1)..(k - 1) : e[j].event = "action"
                    /\ k + 1 = Len(e) /\ e[k + 1] = DoneEvent

\* a turn with model tokens and two action events has emitted done
C22_Witness ==
    /\ Len(ActionPayloads(ag.events)) = 2
    /\ RelayedText(ag.events) # <<>>
    /\ DoneLast(ag)
    /\ ag.connected

\* the text of the model holds a marker
HasMarker(d) == IndexOf(TextOf(d), Marker) # 0

\* C23: in a completed turn whose text holds a marker and a tag block, the
\* action events carry the array that follows the last marker, or there is
\* none: the tag block is not what they are read from.
C23_TagOnlyWithoutMarker ==
    (ag.connected /\ ag.pc = "save" /\ HasMarker(ag.output) /\ ag.output.kind \in TagKinds) =>
        \/ ActionPayloads(ag.events) = <<>>
        \/ /\ ag.output.kind \in {"tagMarkerArray", "markerArrayTag"}
           /\ ActionPayloads(ag.events) = ag.output.elems
        \/ /\ ag.output.kind = "markerProseTag"
           /\ ActionPayloads(ag.events) = <<ObjB>>

\* C23 (amended): the tag block is read when the text holds no marker and
\* also when nothing between a "[" and a later "]" follows the last marker;
\* when such a span follows the last marker, the action events carry its
\* array, or there is none when it is no JSON array, and a tag block before
\* the marker is not read.
C23_TagWhenNoBracketSpan ==
    (ag.connected /\ ag.pc = "save") =>
        /\ ag.output.kind \in {"tag", "tagMarkerProse"} => ActionPayloads(ag.events) = <<ObjB>>
        /\ ag.output.kind = "tagMarkerArray" => ActionPayloads(ag.events) = ag.output.elems
        /\ ag.output.kind \in {"tagMarkerBad", "markerArrayTag"} => ActionPayloads(ag.events) = <<>>
        /\ ag.output.kind = "markerProseTag" => ActionPayloads(ag.events) = <<ObjB>>

\* a turn whose text holds a tag block and then a marker followed by words
\* has emitted the action of the tag block
C23_Witness ==
    /\ ag.connected /\ ag.pc = "save"
    /\ ag.output.kind = "tagMarkerProse"
    /\ ActionPayloads(ag.events) = <<ObjB>>

\* C25: a request with a key configured and a well-formed body whose message
\* is empty or white space gets the response 400 and nothing else happens: no
\* event, no tool call, no model call, no saveRun call. Once a turn has begun
\* and the client is connected, it is not over before done is emitted,
\* whatever failed: the tool (also for arguments without url or method), the
\* model or saveRun.
C25_OnlyValidationAborts ==
    /\ (ag.pc # "idle" /\ ag.input.apiKey /\ ~ag.input.malformed /\ Trim(ag.input.message) = <<>>) =>
        /\ ag.pc = "responded"
        /\ ag.response = [status |-> 400, body |-> "Empty message"]
        /\ ag.events = <<>> /\ ag.stream = "none"
        /\ ag.toolCalls = 0 /\ ex = IdleEx
        /\ ag.modelCalls = 0
        /\ ag.saves = <<>>
    /\ (ag.mode = "agent" /\ ag.connected /\ ag.events # <<>>) =>
        /\ Trim(ag.input.message) # <<>>
        /\ ag.pc \in AgInFlight \cup {"closed"}
        /\ ag.pc \in {"save", "saveCatch", "closed"} => DoneLast(ag)
        /\ ag.pc \in {"tool", "model", "read"} => EventsNamed(ag.events, "done") = {}

\* a turn whose tool had no url, whose model failed and whose saveRun threw
\* is closed after done
C25_Witness ==
    /\ ag.pc = "closed" /\ ag.connected
    /\ ex.pc = "thrown" /\ ex.error = "URL is required"
    /\ ag.stepRecords[Len(ag.stepRecords)] = StepRecord(ag.llmStepId, "llm", "failed")
    /\ ag.outcome = "throws"
    /\ DoneLast(ag)

C26_HitServesSameTransmission ==
    (/\ ex.called /\ ex.pc = "returned" /\ ex.result.fromCache
     /\ prev.pc = "returned" /\ prev.net = 1 /\ prev.key = ex.key)
    => prev.sent = Transmitted(ex.req)

\* C27: with the in-memory store, a get that serves a cacheable GET from the
\* cache leaves the store as it was, entry and expiry included, and makes no
\* network call; an entry written at time w with a positive TTL t is served
\* only up to w + t, and the execution that reads it after that, whatever was
\* served from it before, goes on to the network call.
C27_HitLeavesStore ==
    [][(kvlog'.op = "get" /\ env.backend = "memory") =>
        LET k == kvlog'.key
        IN  /\ (ex'.pc = "returned" /\ ex'.result.fromCache)
               => /\ store' = store
                  /\ ex'.net = 0
                  /\ k \in DOMAIN store
                  /\ store[k].ttl > 0 => now <= store[k].setAt + store[k].ttl * 1000
            /\ (/\ k \in DOMAIN store
                /\ store[k].ttl > 0
                /\ now > store[k].setAt + store[k].ttl * 1000)
               => /\ ex'.pc = "fetch"
                  /\ ~ex'.result.fromCache]_vars

\* an execution finds expired the entry the execution before it was served
\* from, and is about to make its network call
C27_Witness ==
    /\ kvlog.op = "get" /\ kvlog.ret = NullValue
    /\ ex.pc = "fetch" /\ ~ex.absent /\ ex.canCache
    /\ prev.pc = "returned" /\ prev.net = 0 /\ prev.key = ex.key

\* C28: with the in-memory store, the step in which the network call of a
\* cacheable GET completes writes the envelope built from the answer under the
\* key of the request, whatever the status of the answer; an execution that
\* reads such an entry within its TTL returns the stored envelope, a 4xx or
\* 5xx one included, with fromCache = true and without a network call; and the
\* step in which the network call fails leaves the store as it was.
C28_EveryStatusIsStored ==
    [][/\ (ex.pc = "fetch" /\ ex.canCache /\ ex'.pc = "returned")
          => /\ ex'.net = 1 /\ ex'.writes = 1
             /\ ex'.result.status = ex'.resp.status
             /\ ~ex'.result.fromCache
             /\ ex.key \in DOMAIN store'
             /\ store'[ex.key].value = JsonStringify(ex'.result)
       /\ (ex.pc = "fetch" /\ ex'.pc = "thrown")
          => /\ store' = store
             /\ ex'.writes = 0
       /\ (/\ kvlog'.op = "get"
           /\ kvlog'.key \in DOMAIN store
           /\ store[kvlog'.key].ttl > 0
           /\ now <= store[kvlog'.key].setAt + store[kvlog'.key].ttl * 1000)
          => /\ ex'.pc = "returned" /\ ex'.net = 0
             /\ JsonParse(store[kvlog'.key].value).ok
             /\ ex'.result = [JsonParse(store[kvlog'.key].value).val EXCEPT !.fromCache = TRUE]]_vars

\* an answer of status 500 that the execution before fetched is replayed
\* from the cache
C28_Witness ==
    /\ ex.called /\ ex.pc = "returned" /\ ex.net = 0
    /\ ex.result.fromCache /\ ex.result.status = 500
    /\ prev.pc = "returned" /\ prev.net = 1 /\ prev.key = ex.key

\* C29: under every interleaving of executions of one cacheable GET that
\* share the in-memory store, what is stored under the fingerprint is the
\* whole envelope, with fromCache = false, that one of the executions built
\* from its own network call; an execution that returned fromCache = true
\* read the cache after a write of another execution had completed and
\* returns that writer's envelope without a network call; and an execution
\* that read the cache before any write completed makes its own network call.
C29_ConcurrentMissesEachFetch ==
    /\ \A k \in DOMAIN store :
          /\ JsonParse(store[k].value).ok
          /\ ~JsonParse(store[k].value).val.fromCache
          /\ \E p \in Procs :
                /\ conc[p].e.writes = 1 /\ conc[p].e.net = 1 /\ conc[p].e.key = k
                /\ store[k].value = JsonStringify(conc[p].e.result)
    /\ \A p \in Procs :
          LET e == conc[p].e
          IN  /\ (e.pc = "returned" /\ e.result.fromCache)
                 => /\ conc[p].saw >= 1 /\ e.net = 0
                    /\ \E q \in Procs \ {p} :
                          /\ conc[q].e.writes = 1
                          /\ e.result = [conc[q].e.result EXCEPT !.fromCache = TRUE]
              /\ (e.called /\ conc[p].saw = 0)
                 => \/ e.pc = "fetch"
                    \/ e.pc = "returned" /\ e.net = 1 /\ ~e.result.fromCache
                    \/ e.pc = "thrown" /\ e.net = 1

\* two executions both read the cache before any write, both fetched and
\* both wrote; their answers differ and the store holds one of them
C29_Witness ==
    \E p, q \in Procs :
        /\ p # q
        /\ conc[p].saw = 0 /\ conc[q].saw = 0
        /\ conc[p].e.pc = "returned" /\ conc[q].e.pc = "returned"
        /\ conc[p].e.writes = 1 /\ conc[q].e.writes = 1
        /\ conc[p].e.result # conc[q].e.result
        /\ conc[p].e.key \in DOMAIN store
        /\ store[conc[p].e.key].value = JsonStringify(conc[q].e.result)

\* C30: in the in-memory store and in the client of the external store
\* alike, a set with TTL 0 that succeeds leaves an entry without expiry, as a
\* set without TTL does, and every later get of the key that the store
\* answers returns its value; so with the configured TTL 0 an execution that
\* finds the entry returns it with fromCache = true and without a network
\* call however much later it reads.
C30_TtlZeroNeverExpires ==
    [][/\ (kvlog'.op = "set" /\ ~kvlog'.failed /\ ConfiguredTtl(env.ttl) = 0)
          => LET map == IF env.backend = "memory" THEN store' ELSE redis'
             IN  /\ kvlog'.key \in DOMAIN map
                 /\ map[kvlog'.key].exp = 0
                 /\ map[kvlog'.key].value = kvlog'.ret
       /\ (/\ kvlog'.op = "get" /\ ~kvlog'.failed
           /\ kvlog'.key \in DOMAIN ActiveMap
           /\ ActiveMap[kvlog'.key].ttl = 0)
          => /\ kvlog'.ret = ActiveMap[kvlog'.key].value
             /\ store' = store /\ redis' = redis
             /\ ex'.pc = "returned" /\ ex'.net = 0
             /\ ex'.result = [JsonParse(kvlog'.ret).val EXCEPT !.fromCache = TRUE]]_vars

\* an entry written with TTL 0 is served from the cache as many ticks after
\* the write as the clock allows
C30_Witness ==
    /\ ex.called /\ ex.pc = "returned" /\ ex.result.fromCache /\ ex.net = 0
    /\ kvlog.op = "get"
    /\ ConfiguredTtl(env.ttl) = 0
    /\ ex.key \in DOMAIN ActiveMap
    /\ ActiveMap[ex.key].ttl = 0
    /\ now = ActiveMap[ex.key].setAt + MaxTicks * TickMs

====
